---- MODULE Spec2Model ----
(***************************************************************************)
(* Paint layers of egui (crates/egui/src/layers.rs): PaintList, the        *)
(* per-Order maps of GraphicLayers, and the end-of-frame drain; and the    *)
(* storage of eframe (crates/eframe/src/native/file_storage.rs):           *)
(* storage_dir and FileStorage with its save threads.                      *)
(***************************************************************************)
EXTENDS Integers, Sequences, FiniteSets

(* ---------------------------------------------------------------- bounds *)

\* Most entries of the PaintList taken on its own.
MaxLen == 3
\* Most calls that edit entries of that list in place.
MaxEdits == 1

\* Most entries held by all PaintLists together during one frame.
MaxShapes == 3
\* Longest area_order handed to drain.
MaxAreaLen == 2

\* Most sizes pre-allocated for one Strip.
MaxSizes == 2
\* Most cells the caller adds beyond the pre-allocated sizes.
MaxExtra == 1

\* Most save threads one FileStorage spawns.
MaxSaves == 2

\* Longest app_id handed to storage_dir, in characters.
MaxIdLen == 2

(* ------------------------------------------------------- Order, LayerId *)

\* enum Order, as `order as usize`.
Background == 0
Middle == 1
Foreground == 2
Tooltip == 3
Debug == 4

COUNT == 5

\* Order::ALL with one element more than the enum has variants.
ALL_past_end == <<Background, Middle, Foreground, Tooltip, Debug, COUNT>>

\* A wrong paint sequence: the categories listed top-most first.
ALL_top_first == <<Debug, Tooltip, Foreground, Middle, Background>>

\* Order::ALL
ALL == <<Background, Middle, Foreground, Tooltip, Debug>>

Orders == 0 .. (COUNT - 1)

\* LayerId::new
LayerIdNew(order, id) == [order |-> order, id |-> id]

\* The Ids and the layers the callers of this model paint into: two layers of
\* one category (windows), and a layer of a higher category (a popup) that
\* shares its Id with one of them.
Ids == {1, 2}
LayerIds == {LayerIdNew(Middle, 1), LayerIdNew(Middle, 2), LayerIdNew(Foreground, 1)}

(* ------------------------------------------------- geometry and shapes *)

\* TSTransform * Pos2: scale, then translate.
mul_pos(t, p) == <<t.scaling * p[1] + t.translation[1], t.scaling * p[2] + t.translation[2]>>

\* TSTransform * Rect
mul_rect(t, r) == [min |-> mul_pos(t, r.min), max |-> mul_pos(t, r.max)]

\* Shape::transform: Noop has nothing to move, a circle moves and scales.
shape_transform(t, s) ==
    IF s.kind = "Noop" THEN s
    ELSE [s EXCEPT !.center = mul_pos(t, @), !.radius = t.scaling * @]

ClipRects == {[min |-> <<0, 0>>, max |-> <<4, 4>>]}
Shapes == {[kind |-> "Circle", center |-> <<1, 2>>, radius |-> 1]}
Transforms == {[scaling |-> 2, translation |-> <<1, 0>>],
               [scaling |-> 1, translation |-> <<0, 3>>]}

(* ------------------------------------------------------------ PaintList *)
\* A PaintList is the sequence of its ClippedShapes.  An entry carries, next
\* to clip_rect and shape, the identity `uid` of the stored object, so that
\* a moved entry can be told from a copy of it.

\* PaintList::is_empty
is_empty(list) == Len(list) = 0

\* A next_idx that counts from one.
next_idx_from_one(list) == Len(list) + 1

\* PaintList::next_idx (ShapeIdx is 0-based)
next_idx(list) == Len(list)

\* PaintList::add: the ShapeIdx it returns (`let idx = self.next_idx()`).
add_idx(list) == next_idx(list)

\* An add that puts the new entry in front.
add_in_front(list, clip_rect, shape, uid) ==
    <<[clip_rect |-> clip_rect, shape |-> shape, uid |-> uid]>> \o list

\* PaintList::add: the list after the push.
add(list, clip_rect, shape, uid) ==
    Append(list, [clip_rect |-> clip_rect, shape |-> shape, uid |-> uid])

\* An extend that pushes the shapes last first.
extend_reversed(list, clip_rect, shapes, uid0) ==
    list \o [i \in 1 .. Len(shapes) |->
                [clip_rect |-> clip_rect, shape |-> shapes[Len(shapes) + 1 - i],
                 uid |-> uid0 + i - 1]]

\* PaintList::extend: one entry per shape, all with the same clip_rect.
extend(list, clip_rect, shapes, uid0) ==
    list \o [i \in 1 .. Len(shapes) |->
                [clip_rect |-> clip_rect, shape |-> shapes[i], uid |-> uid0 + i - 1]]

\* Shape::Noop
Noop == [kind |-> "Noop", center |-> <<0, 0>>, radius |-> 0]

\* The calls that take a ShapeIdx give the list after the call and whether
\* the call panicked; a panic leaves the list as it was.
Done(list) == [list |-> list, panic |-> FALSE]
Panic(list) == [list |-> list, panic |-> TRUE]

\* Vec indexing `self.0[i]`: in bounds or a panic.
InBounds(list, i) == i < Len(list)

\* A set that replaces the shape and keeps the old clip rectangle.
set_keeps_clip(list, idx, clip_rect, shape) ==
    IF Len(list) <= idx.i THEN Done(list)
    ELSE Done([list EXCEPT ![idx.i + 1].shape = shape])

\* A set whose guard lets idx == len through to the indexing.
set_guard_off_by_one(list, idx, clip_rect, shape) ==
    IF Len(list) < idx.i THEN Done(list)
    ELSE IF InBounds(list, idx.i)
         THEN Done([list EXCEPT ![idx.i + 1] =
                       [clip_rect |-> clip_rect, shape |-> shape, uid |-> @.uid]])
         ELSE Panic(list)

\* A set that pushes the pair at the tail instead of writing it at idx.
set_at_end(list, idx, clip_rect, shape) ==
    IF Len(list) <= idx.i THEN Done(list)
    ELSE Done(Append(list, [clip_rect |-> clip_rect, shape |-> shape, uid |-> 0]))

\* A set without the guard: the indexing meets whatever idx it is given.
set_unguarded(list, idx, clip_rect, shape) ==
    IF InBounds(list, idx.i)
    THEN Done([list EXCEPT ![idx.i + 1] =
                  [clip_rect |-> clip_rect, shape |-> shape, uid |-> @.uid]])
    ELSE Panic(list)

\* PaintList::set
set(list, idx, clip_rect, shape) ==
    IF Len(list) <= idx.i THEN Done(list)
    ELSE Done([list EXCEPT ![idx.i + 1] =
                  [clip_rect |-> clip_rect, shape |-> shape, uid |-> @.uid]])

\* A reset_shape that takes the entry out of the Vec, the later ones moving up.
reset_shape_removes(list, idx) ==
    IF InBounds(list, idx.i)
    THEN Done([k \in 1 .. (Len(list) - 1) |-> IF k <= idx.i THEN list[k] ELSE list[k + 1]])
    ELSE Panic(list)

\* PaintList::reset_shape
reset_shape(list, idx) ==
    IF InBounds(list, idx.i) THEN Done([list EXCEPT ![idx.i + 1].shape = Noop])
    ELSE Panic(list)

\* The closures handed to mutate_shape in this model.
Fs == {"shift_clip", "grow"}
apply_f(f, e) ==
    IF f = "shift_clip"
    THEN [e EXCEPT !.clip_rect = [min |-> <<@.min[1] + 1, @.min[2] + 1>>,
                                  max |-> <<@.max[1] + 1, @.max[2] + 1>>]]
    ELSE [e EXCEPT !.shape.radius = @ + 1]

\* A mutate_shape that indexes (self.0[idx.0]) instead of get_mut.
mutate_shape_indexing(list, idx, f) ==
    IF InBounds(list, idx.i) THEN Done([list EXCEPT ![idx.i + 1] = apply_f(f, @)])
    ELSE Panic(list)

\* A mutate_shape that runs f on the entry twice.
mutate_shape_twice(list, idx, f) ==
    IF InBounds(list, idx.i)
    THEN Done([list EXCEPT ![idx.i + 1] = apply_f(f, apply_f(f, @))])
    ELSE Done(list)

\* PaintList::mutate_shape: self.0.get_mut(idx.0).map(f)
mutate_shape(list, idx, f) ==
    IF InBounds(list, idx.i) THEN Done([list EXCEPT ![idx.i + 1] = apply_f(f, @)])
    ELSE Done(list)

\* The body of the loops of transform and transform_range.
transform_entry(e, t) ==
    [e EXCEPT !.clip_rect = mul_rect(t, @), !.shape = shape_transform(t, @)]

\* A transform that moves the shapes and leaves the clip rectangles.
transform_shapes_only(list, t) ==
    [k \in 1 .. Len(list) |-> [list[k] EXCEPT !.shape = shape_transform(t, @)]]

\* PaintList::transform
transform(list, t) == [k \in 1 .. Len(list) |-> transform_entry(list[k], t)]

\* A transform_range that takes the entry at `end` too.
transform_range_inclusive(list, start, end, t) ==
    IF start.i <= end.i /\ end.i <= Len(list)
    THEN Done([k \in 1 .. Len(list) |->
                  IF start.i < k /\ k <= end.i + 1 THEN transform_entry(list[k], t) ELSE list[k]])
    ELSE Panic(list)

\* PaintList::transform_range: the slice self.0[start.0..end.0] panics unless
\* start <= end <= len.
transform_range(list, start, end, t) ==
    IF start.i <= end.i /\ end.i <= Len(list)
    THEN Done([k \in 1 .. Len(list) |->
                  IF start.i < k /\ k <= end.i THEN transform_entry(list[k], t) ELSE list[k]])
    ELSE Panic(list)

(* -------------------------------------------------------- GraphicLayers *)
\* GraphicLayers is [Orders -> IdMap<PaintList>]; an IdMap is a function
\* whose domain is the set of Ids that have a slot.

EmptyMap == [i \in {} |-> <<>>]
EmptyLayers == [o \in Orders |-> EmptyMap]

MapInsert(m, id, v) == [i \in (DOMAIN m) \cup {id} |-> IF i = id THEN v ELSE m[i]]

\* An entry that always inserts a new list, over the one that is there.
entry_insert(g, layer_id) ==
    [g EXCEPT ![layer_id.order] = MapInsert(@, layer_id.id, <<>>)]

\* An entry keyed by the Id alone: the list is made in the map of every Order.
entry_every_order(g, layer_id) ==
    [o \in DOMAIN g |->
        IF layer_id.id \in DOMAIN g[o] THEN g[o] ELSE MapInsert(g[o], layer_id.id, <<>>)]

\* GraphicLayers::entry: the layers after `entry(layer_id)` (or_default).
entry(g, layer_id) ==
    IF layer_id.id \in DOMAIN g[layer_id.order] THEN g
    ELSE [g EXCEPT ![layer_id.order] = MapInsert(@, layer_id.id, <<>>)]

\* GraphicLayers::get: whether there is a slot, and its list.
has_slot(g, layer_id) == layer_id.id \in DOMAIN g[layer_id.order]
get(g, layer_id) == g[layer_id.order][layer_id.id]

\* A get_mut that inserts a default list when there is none.
get_mut_or_default(g, layer_id) ==
    LET h == entry(g, layer_id)
    IN [layers |-> h, found |-> TRUE, list |-> get(h, layer_id)]

\* GraphicLayers::get_mut: the layers after the call, whether a list was
\* found, and the list (Option<&mut PaintList>).
get_mut(g, layer_id) ==
    [layers |-> g,
     found |-> has_slot(g, layer_id),
     list |-> IF has_slot(g, layer_id) THEN get(g, layer_id) ELSE <<>>]

\* retain that frees nothing.
retain_all(order_map) == order_map

\* retain with the test inverted: frees the lists that hold entries.
retain_empty(order_map) ==
    [i \in {j \in DOMAIN order_map : is_empty(order_map[j])} |-> order_map[i]]

\* order_map.retain(|_, list| !list.is_empty())
retain(order_map) ==
    [i \in {j \in DOMAIN order_map : ~is_empty(order_map[j])} |-> order_map[i]]

\* A lookup of the transform by Id alone, whatever the Order of the key.
to_global_list_by_id(list, layer_id, to_global) ==
    IF \E k \in DOMAIN to_global : k.id = layer_id.id
    THEN LET t == to_global[CHOOSE k \in DOMAIN to_global : k.id = layer_id.id]
         IN [i \in 1 .. Len(list) |->
                [list[i] EXCEPT !.clip_rect = mul_rect(t, @),
                                !.shape = shape_transform(t, @)]]
    ELSE list

\* if let Some(to_global) = to_global.get(layer_id) { for clipped_shape ... }
to_global_list(list, layer_id, to_global) ==
    IF layer_id \in DOMAIN to_global
    THEN LET t == to_global[layer_id]
         IN [i \in 1 .. Len(list) |->
                [list[i] EXCEPT !.clip_rect = mul_rect(t, @),
                                !.shape = shape_transform(t, @)]]
    ELSE list

Reverse(s) == [i \in 1 .. Len(s) |-> s[Len(s) + 1 - i]]

\* Appending by popping the source from its back.
append_dst_popped(all_shapes, other) == all_shapes \o Reverse(other)

\* Vec::append, the destination: all of `other` at the tail, in order.
append_dst(all_shapes, other) == all_shapes \o other

\* A copy instead of a move: the source keeps its elements.
append_src_kept(other) == other

\* Vec::append, the source: left empty.
append_src(other) == <<>>

\* The first loop of drain over one category: the layers named in area_order.
\* The result is the order_map and all_shapes after the loop.
RECURSIVE drain_listed_from(_, _, _, _, _)
drain_listed_from(order_map, all_shapes, order, area_order, to_global) ==
    IF area_order = <<>> THEN [order_map |-> order_map, all_shapes |-> all_shapes]
    ELSE LET layer_id == Head(area_order)
         IN IF layer_id.order = order /\ layer_id.id \in DOMAIN order_map
            THEN LET list == to_global_list(order_map[layer_id.id], layer_id, to_global)
                 IN drain_listed_from(
                        [order_map EXCEPT ![layer_id.id] = append_src(list)],
                        append_dst(all_shapes, list),
                        order, Tail(area_order), to_global)
            ELSE drain_listed_from(order_map, all_shapes, order, Tail(area_order), to_global)

\* The first loop walking area_order from its end.
drain_listed_backwards(order_map, all_shapes, order, area_order, to_global) ==
    drain_listed_from(order_map, all_shapes, order, Reverse(area_order), to_global)

drain_listed(order_map, all_shapes, order, area_order, to_global) ==
    drain_listed_from(order_map, all_shapes, order, area_order, to_global)

\* The second loop of drain over one category: every slot of the map, in the
\* map's iteration order `iter` (a sequence of the Ids of the map).
RECURSIVE drain_rest_from(_, _, _, _, _)
drain_rest_from(order_map, all_shapes, order, iter, to_global) ==
    IF iter = <<>> THEN [order_map |-> order_map, all_shapes |-> all_shapes]
    ELSE LET id == Head(iter)
             layer_id == LayerIdNew(order, id)
             list == to_global_list(order_map[id], layer_id, to_global)
         IN drain_rest_from(
                [order_map EXCEPT ![id] = append_src(list)],
                append_dst(all_shapes, list),
                order, Tail(iter), to_global)

\* The second loop left out.
drain_rest_skipped(order_map, all_shapes, order, iter, to_global) ==
    [order_map |-> order_map, all_shapes |-> all_shapes]

drain_rest(order_map, all_shapes, order, iter, to_global) ==
    drain_rest_from(order_map, all_shapes, order, iter, to_global)

\* The body of `for &order in &Order::ALL` with the two loops swapped.
drain_order_rest_first(order_map, all_shapes, order, area_order, to_global, iter) ==
    LET kept == retain(order_map)
        rest == drain_rest(kept, all_shapes, order, iter, to_global)
    IN drain_listed(rest.order_map, rest.all_shapes, order, area_order, to_global)

\* The two loops run on a clone of the map: the map itself keeps its entries.
drain_order_on_clone(order_map, all_shapes, order, area_order, to_global, iter) ==
    LET kept == retain(order_map)
        listed == drain_listed(kept, all_shapes, order, area_order, to_global)
        rest == drain_rest(listed.order_map, listed.all_shapes, order, iter, to_global)
    IN [order_map |-> kept, all_shapes |-> rest.all_shapes]

\* The body of `for &order in &Order::ALL`: retain, first loop, second loop.
drain_order(order_map, all_shapes, order, area_order, to_global, iter) ==
    LET kept == retain(order_map)
        listed == drain_listed(kept, all_shapes, order, area_order, to_global)
    IN drain_rest(listed.order_map, listed.all_shapes, order, iter, to_global)

\* `self.0[order as usize]`: an index into the array of COUNT maps, in bounds
\* or a panic.
InArray(g, order) == order \in DOMAIN g

\* GraphicLayers::drain from the k-th category of Order::ALL on.  iters[o] is
\* the iteration order of the map of category o.  The result tells whether
\* the indexing of the array panicked.
RECURSIVE drain_from(_, _, _, _, _, _)
drain_from(g, all_shapes, k, area_order, to_global, iters) ==
    IF k > Len(ALL) THEN [layers |-> g, all_shapes |-> all_shapes, panic |-> FALSE]
    ELSE LET order == ALL[k]
         IN IF ~InArray(g, order)
            THEN [layers |-> g, all_shapes |-> all_shapes, panic |-> TRUE]
            ELSE LET r == drain_order(g[order], all_shapes, order, area_order,
                                      to_global, iters[order])
                 IN drain_from([g EXCEPT ![order] = r.order_map], r.all_shapes,
                               k + 1, area_order, to_global, iters)

\* GraphicLayers::drain
drain(g, area_order, to_global, iters) ==
    drain_from(g, <<>>, 1, area_order, to_global, iters)

(* ------------------------------------------------------------ the state *)

VARIABLES
    layers,          \* GraphicLayers.0
    op,              \* "frame" while a frame is painted, "drain" when drain has just returned
    touched,         \* the LayerIds given to entry() in the current frame
    area_order,      \* the arguments of the drain that just returned
    to_global,
    pre,             \* GraphicLayers.0 when that drain started
    out,             \* the Vec that drain returned
    drainsSinceAdd,  \* drains finished since the last add or extend (0, 1, 2 = two or more)
    entered,         \* the LayerId given to the entry(), get() or get_mut() that has just returned
    got,             \* what that get() or get_mut() returned
    painted,         \* entries pushed by add and extend since the last frame ended
    \* A PaintList on its own (PaintList::default() and the calls made on it):
    paint_list,      \* PaintList.0
    lcall,           \* the call that has just returned or panicked, with its arguments
    lbefore,         \* PaintList.0 when that call started
    lret,            \* what that call returned
    panicked,        \* the call panicked
    edits,           \* calls of set, reset_shape, mutate_shape, transform, transform_range so far
    handles,         \* what the calls of add returned so far: idx, and uid of the slot pushed
    \* A widget that reserves a slot of a layer and fills it later:
    reserved,        \* the ShapeIdx it holds, the layer it is of, and what became of it
    \* storage_dir (crates/eframe/src/native/file_storage.rs):
    dir_call,        \* the call that has just returned: target, environment, app_id
    dir_ret,         \* the Option<PathBuf> it returned
    \* A FileStorage, its save threads and its caller:
    kv,              \* FileStorage.kv
    dirty,           \* FileStorage.dirty
    last_save_join_handle,  \* 0 for None, else the number of the save thread the handle is of
    threads,         \* the save threads spawned so far: the kv each was given, and how far it is
    file,            \* the .ron file: missing, whole, empty (just created) or partly written
    spc,             \* where the caller is: before construction, between calls, inside flush or drop
    flush_kv,        \* inside flush: the clone of kv
    join_target,     \* inside flush or drop: the handle that was taken
    loaded,          \* what from_ron_filepath read
    scall,           \* the call that has just returned
    sbefore,         \* kv, dirty and the number of threads when that call started
    sret,            \* what that call returned
    last_set,        \* the arguments of the last set_string
    writes,          \* the save threads in the order in which they ended
    \* A Strip (crates/egui_extras/src/strip.rs), its layout and its caller:
    strip,           \* Strip: sizes, size_index, direction
    cells,           \* what the StripLayout was given: one element for each add or empty
    stp,             \* where the caller is: before the build, in the closure, unwinding, after the drop
    debug_assertions,  \* cfg!(debug_assertions) of the build
    strip_call,      \* the call of cell or empty that has just returned or panicked
    strip_before,    \* size_index and the number of cells when that call started
    extra            \* calls of cell or empty made with no pre-allocated size left

\* The state of GraphicLayers and of what is observed of it.
gvars == <<layers, op, touched, area_order, to_global, pre, out, drainsSinceAdd, entered, got,
          painted>>

\* The state of the PaintList on its own.
lvars == <<paint_list, lcall, lbefore, lret, panicked, edits, handles>>

\* The state of the widget that holds a ShapeIdx.
fvars == <<reserved>>

\* The call of storage_dir under observation.
dvars == <<dir_call, dir_ret>>

\* The FileStorage and what is observed of it.
svars == <<kv, dirty, last_save_join_handle, threads, file, spc, flush_kv, join_target, loaded,
           scall, sbefore, sret, last_set, writes>>

\* The Strip and what is observed of it.
tvars == <<strip, cells, stp, debug_assertions, strip_call, strip_before, extra>>

vars == <<gvars, lvars, fvars, dvars, svars, tvars>>

\* What the calls on GraphicLayers leave alone, what the calls on the
\* PaintList on its own leave alone, and so on for each part of the state.
not_gvars == <<lvars, fvars, dvars, svars, tvars>>
not_lvars == <<gvars, fvars, dvars, svars, tvars>>
not_fvars == <<lvars, dvars, svars, tvars>>
not_dvars == <<gvars, lvars, fvars, svars, tvars>>
not_svars == <<gvars, lvars, fvars, dvars, tvars>>
not_tvars == <<gvars, lvars, fvars, dvars, svars>>

\* All the entries stored in g.
AllEntries(g) ==
    UNION {{g[s[1]][s[2]][k] : k \in 1 .. Len(g[s[1]][s[2]])} :
              s \in {t \in Orders \X Ids : t[2] \in DOMAIN g[t[1]]}}

NumShapes(g) == Cardinality(AllEntries(g))

\* The identity of the next stored object: one more than the largest in use.
FreshUid(g) ==
    IF AllEntries(g) = {} THEN 1
    ELSE 1 + (CHOOSE m \in {e.uid : e \in AllEntries(g)} : \A e \in AllEntries(g) : e.uid <= m)

\* The sequences over S of length at most n.
SeqsUpTo(S, n) == UNION {[1 .. k -> S] : k \in 0 .. n}

\* The orders in which a hash map holding the keys S can iterate.
IterOrders(S) == {s \in [1 .. Cardinality(S) -> S] : \A a \in S : \E i \in DOMAIN s : s[i] = a}

\* The transform maps handed to drain: any set of layers, each with a transform.
ToGlobals == UNION {[K -> Transforms] : K \in SUBSET LayerIds}

\* No drain result is at hand.
NoDrain ==
    /\ area_order' = <<>>
    /\ to_global' = EmptyMap
    /\ pre' = EmptyLayers
    /\ out' = <<>>

\* No call is under observation.
NoCall == [name |-> "none"]
NoLayer == [order |-> COUNT, id |-> 0]
\* Option::None, and Option::Some(list)
None == [found |-> FALSE, list |-> <<>>]

\* GraphicLayers::default()
InitLayers ==
    /\ layers = EmptyLayers
    /\ op = "frame"
    /\ touched = {}
    /\ area_order = <<>>
    /\ to_global = EmptyMap
    /\ pre = EmptyLayers
    /\ out = <<>>
    /\ drainsSinceAdd = 0
    /\ entered = NoLayer
    /\ got = None
    /\ painted = 0

\* PaintList::default()
InitList ==
    /\ paint_list = <<>>
    /\ lcall = NoCall
    /\ lbefore = <<>>
    /\ lret = 0
    /\ panicked = FALSE
    /\ edits = 0
    /\ handles = {}

\* No ShapeIdx is held.
NoHandle == [state |-> "none", layer |-> NoLayer, idx |-> [i |-> 0], uid |-> 0,
             clip_rect |-> [min |-> <<0, 0>>, max |-> <<0, 0>>], shape |-> Noop]

InitHandle == reserved = NoHandle

\* No call of storage_dir is under observation.
NoDirCall == [name |-> "none"]
NoPath == [some |-> FALSE, path |-> <<>>]

InitDir ==
    /\ dir_call = NoDirCall
    /\ dir_ret = NoPath

\* No FileStorage call is under observation.
NoSCall == [name |-> "none"]
NoString == [some |-> FALSE, value |-> ""]
NoBefore == [kv |-> EmptyMap, dirty |-> FALSE, threads |-> 0]

\* The .ron file does not exist.
NoFile == [bytes |-> "missing", kv |-> EmptyMap]

\* No FileStorage has been made yet.
InitStorage ==
    /\ kv = EmptyMap
    /\ dirty = FALSE
    /\ last_save_join_handle = 0
    /\ threads = <<>>
    /\ file = NoFile
    /\ spc = "new"
    /\ flush_kv = EmptyMap
    /\ join_target = 0
    /\ loaded = EmptyMap
    /\ scall = NoSCall
    /\ sbefore = NoBefore
    /\ sret = NoString
    /\ last_set = NoSCall
    /\ writes = <<>>

\* No call of the Strip is under observation.
NoStripCall == [name |-> "none"]
NoStripBefore == [size_index |-> 0, cells |-> 0]

\* No Strip has been built yet.
InitStrip ==
    /\ strip = [sizes |-> <<>>, size_index |-> 0, direction |-> "Horizontal"]
    /\ cells = <<>>
    /\ stp = "new"
    /\ debug_assertions = FALSE
    /\ strip_call = NoStripCall
    /\ strip_before = NoStripBefore
    /\ extra = 0

Init == InitLayers /\ InitList /\ InitHandle /\ InitDir /\ InitStorage /\ InitStrip

\* graphics.entry(layer_id), the PaintList left as it is.  The call is kept
\* under observation (pre, entered) until EntryReturn.
Entry(layer_id) ==
    /\ op = "frame"
    /\ layers' = entry(layers, layer_id)
    /\ touched' = touched \cup {layer_id}
    /\ op' = "entry"
    /\ pre' = layers
    /\ entered' = layer_id
    /\ UNCHANGED <<area_order, to_global, out, drainsSinceAdd, got, painted>>
    /\ UNCHANGED not_gvars

\* The caller lets go of the PaintList that entry() returned.
EntryReturn ==
    /\ op = "entry"
    /\ op' = "frame"
    /\ pre' = EmptyLayers
    /\ entered' = NoLayer
    /\ UNCHANGED <<layers, touched, area_order, to_global, out, drainsSinceAdd, got, painted>>
    /\ UNCHANGED not_gvars

\* graphics.get(layer_id): a lookup through &self, kept under observation
\* until GetReturn.
Get(layer_id) ==
    /\ op = "frame"
    /\ got' = IF has_slot(layers, layer_id)
              THEN [found |-> TRUE, list |-> get(layers, layer_id)]
              ELSE None
    /\ op' = "get"
    /\ pre' = layers
    /\ entered' = layer_id
    /\ UNCHANGED <<layers, touched, area_order, to_global, out, drainsSinceAdd, painted>>
    /\ UNCHANGED not_gvars

\* graphics.get_mut(layer_id), the PaintList left as it is.
GetMut(layer_id) ==
    /\ op = "frame"
    /\ \E r \in {get_mut(layers, layer_id)} :
          /\ layers' = r.layers
          /\ got' = [found |-> r.found, list |-> r.list]
    /\ op' = "get_mut"
    /\ pre' = layers
    /\ entered' = layer_id
    /\ UNCHANGED <<touched, area_order, to_global, out, drainsSinceAdd, painted>>
    /\ UNCHANGED not_gvars

\* The caller lets go of what get() or get_mut() returned.
GetReturn ==
    /\ op \in {"get", "get_mut"}
    /\ op' = "frame"
    /\ pre' = EmptyLayers
    /\ entered' = NoLayer
    /\ got' = None
    /\ UNCHANGED <<layers, touched, area_order, to_global, out, drainsSinceAdd, painted>>
    /\ UNCHANGED not_gvars

\* graphics.entry(layer_id).add(clip_rect, shape)
Add(layer_id, clip_rect, shape) ==
    /\ op = "frame"
    /\ NumShapes(layers) < MaxShapes
    /\ LET g == entry(layers, layer_id)
       IN layers' = [g EXCEPT ![layer_id.order][layer_id.id] =
                        add(@, clip_rect, shape, FreshUid(layers))]
    /\ touched' = touched \cup {layer_id}
    /\ drainsSinceAdd' = 0
    /\ painted' = painted + 1
    /\ UNCHANGED <<op, area_order, to_global, pre, out, entered, got>>
    /\ UNCHANGED not_gvars

\* graphics.entry(layer_id).extend(clip_rect, shapes)
Extend(layer_id, clip_rect, shapes) ==
    /\ op = "frame"
    /\ NumShapes(layers) + Len(shapes) <= MaxShapes
    /\ LET g == entry(layers, layer_id)
       IN layers' = [g EXCEPT ![layer_id.order][layer_id.id] =
                        extend(@, clip_rect, shapes, FreshUid(layers))]
    /\ touched' = touched \cup {layer_id}
    /\ drainsSinceAdd' = 0
    /\ painted' = painted + Len(shapes)
    /\ UNCHANGED <<op, area_order, to_global, pre, out, entered, got>>
    /\ UNCHANGED not_gvars

\* graphics.drain(ao, tg), the maps iterating in the orders its.
DrainWith(ao, tg, its) ==
    /\ \E r \in {drain(layers, ao, tg, its)} :
          /\ layers' = r.layers
          /\ out' = r.all_shapes
          /\ op' = IF r.panic THEN "drain_panic" ELSE "drain"
    /\ pre' = layers
    /\ area_order' = ao
    /\ to_global' = tg
    /\ drainsSinceAdd' = IF drainsSinceAdd < 2 THEN drainsSinceAdd + 1 ELSE 2
    /\ UNCHANGED <<touched, entered, got, painted>>
    /\ UNCHANGED not_gvars

\* The frame driver ends the frame: drain with any area_order and transform
\* map, each hash map iterating in any order of its keys.
Drain ==
    /\ op = "frame"
    /\ \E ao \in SeqsUpTo(LayerIds, MaxAreaLen), tg \in ToGlobals :
          \E i0 \in IterOrders(DOMAIN retain(layers[Background])),
             i1 \in IterOrders(DOMAIN retain(layers[Middle])),
             i2 \in IterOrders(DOMAIN retain(layers[Foreground])),
             i3 \in IterOrders(DOMAIN retain(layers[Tooltip])),
             i4 \in IterOrders(DOMAIN retain(layers[Debug])) :
                DrainWith(ao, tg, [o \in Orders |-> <<i0, i1, i2, i3, i4>>[o + 1]])

\* The frame driver takes the returned shapes; the next frame begins.
EndFrame ==
    /\ op = "drain"
    /\ op' = "frame"
    /\ touched' = {}
    /\ NoDrain
    /\ painted' = 0
    /\ UNCHANGED <<layers, drainsSinceAdd, entered, got>>
    /\ UNCHANGED not_gvars

Next ==
    \/ \E l \in LayerIds : Entry(l)
    \/ EntryReturn
    \/ \E l \in LayerIds : Get(l)
    \/ \E l \in LayerIds : GetMut(l)
    \/ GetReturn
    \/ \E l \in LayerIds, c \in ClipRects, s \in Shapes : Add(l, c, s)
    \/ \E l \in LayerIds, c \in ClipRects, ss \in SeqsUpTo(Shapes, MaxShapes) : Extend(l, c, ss)
    \/ Drain
    \/ EndFrame

Spec == Init /\ [][Next]_vars

(* ------------------------------------------------ a PaintList on its own *)

\* ShapeIdx(i)
ShapeIdx(i) == [i |-> i]
ShapeIdxs == {ShapeIdx(i) : i \in 0 .. (MaxLen + 1)}

\* What the callers of this model paint and set.
ListShapes == Shapes \cup {Noop}
SetClipRects == {[min |-> <<1, 1>>, max |-> <<3, 3>>]}

\* A call of the list can start: none is observed and none has panicked.
Idle == lcall.name = "none" /\ ~panicked

\* The call c returns (or panics) with the result r and the value v.
Returns(c, r, v) ==
    /\ paint_list' = r.list
    /\ panicked' = r.panic
    /\ lcall' = c
    /\ lbefore' = paint_list
    /\ lret' = v
    /\ UNCHANGED not_lvars

\* list.next_idx()
LNextIdx ==
    /\ Idle
    /\ Returns([name |-> "next_idx"], Done(paint_list), next_idx(paint_list))
    /\ UNCHANGED <<edits, handles>>

\* list.add(clip_rect, shape)
LAdd ==
    /\ Idle
    /\ Len(paint_list) < MaxLen
    /\ \E c \in ClipRects, sh \in ListShapes :
          Returns([name |-> "add", clip_rect |-> c, shape |-> sh],
                  Done(add(paint_list, c, sh, Len(paint_list) + 1)),
                  ShapeIdx(add_idx(paint_list)))
    /\ handles' = handles \cup {[idx |-> ShapeIdx(add_idx(paint_list)), uid |-> Len(paint_list) + 1]}
    /\ UNCHANGED edits

\* list.extend(clip_rect, shapes)
LExtend ==
    /\ Idle
    /\ \E c \in ClipRects, ss \in SeqsUpTo(ListShapes, MaxLen - Len(paint_list)) :
          Returns([name |-> "extend", clip_rect |-> c, shapes |-> ss],
                  Done(extend(paint_list, c, ss, Len(paint_list) + 1)), 0)
    /\ UNCHANGED <<edits, handles>>

\* list.set(idx, clip_rect, shape)
LSet ==
    /\ Idle
    /\ edits < MaxEdits
    /\ \E idx \in ShapeIdxs, c \in SetClipRects, sh \in ListShapes :
          Returns([name |-> "set", idx |-> idx, clip_rect |-> c, shape |-> sh],
                  set(paint_list, idx, c, sh), 0)
    /\ edits' = edits + 1
    /\ UNCHANGED handles

\* list.reset_shape(idx)
LResetShape ==
    /\ Idle
    /\ edits < MaxEdits
    /\ \E idx \in ShapeIdxs :
          Returns([name |-> "reset_shape", idx |-> idx], reset_shape(paint_list, idx), 0)
    /\ edits' = edits + 1
    /\ UNCHANGED handles

\* list.mutate_shape(idx, f)
LMutateShape ==
    /\ Idle
    /\ edits < MaxEdits
    /\ \E idx \in ShapeIdxs, f \in Fs :
          Returns([name |-> "mutate_shape", idx |-> idx, f |-> f],
                  mutate_shape(paint_list, idx, f), 0)
    /\ edits' = edits + 1
    /\ UNCHANGED handles

\* list.transform(t)
LTransform ==
    /\ Idle
    /\ edits < MaxEdits
    /\ \E t \in Transforms :
          Returns([name |-> "transform", t |-> t], Done(transform(paint_list, t)), 0)
    /\ edits' = edits + 1
    /\ UNCHANGED handles

\* list.transform_range(start, end, t)
LTransformRange ==
    /\ Idle
    /\ edits < MaxEdits
    /\ \E start \in ShapeIdxs, end \in ShapeIdxs, t \in Transforms :
          Returns([name |-> "transform_range", start |-> start, end |-> end, t |-> t],
                  transform_range(paint_list, start, end, t), 0)
    /\ edits' = edits + 1
    /\ UNCHANGED handles

\* The caller goes on after a call that returned.
LReturn ==
    /\ lcall.name # "none"
    /\ ~panicked
    /\ lcall' = NoCall
    /\ lbefore' = <<>>
    /\ lret' = 0
    /\ UNCHANGED <<paint_list, panicked, edits, handles>>
    /\ UNCHANGED not_lvars

ListNext ==
    \/ LNextIdx
    \/ LAdd
    \/ LExtend
    \/ LSet
    \/ LResetShape
    \/ LMutateShape
    \/ LTransform
    \/ LTransformRange
    \/ LReturn

ListSpec == Init /\ [][ListNext]_vars

(* ------------------------------------- a slot reserved and filled later *)
\* A widget paints into a layer with `graphics.entry(layer_id)`: it reserves
\* a slot with add(clip_rect, Shape::Noop), keeps the ShapeIdx, paints its
\* children, and fills the slot with set(idx, clip_rect, shape).  It may also
\* keep the ShapeIdx over the end of the frame and use it in a later one.

\* The list of l in g, empty when l has no slot.
ListOf(g, l) == IF has_slot(g, l) THEN get(g, l) ELSE <<>>

\* idx = graphics.entry(layer_id).add(clip_rect, Shape::Noop)
FReserve(layer_id, clip_rect) ==
    /\ op = "frame"
    /\ reserved.state = "none"
    /\ NumShapes(layers) < MaxShapes
    /\ LET g == entry(layers, layer_id)
       IN /\ layers' = [g EXCEPT ![layer_id.order][layer_id.id] =
                           add(@, clip_rect, Noop, FreshUid(layers))]
          /\ reserved' = [NoHandle EXCEPT !.state = "reserved",
                                          !.layer = layer_id,
                                          !.idx = [i |-> add_idx(get(g, layer_id))],
                                          !.uid = FreshUid(layers)]
    /\ touched' = touched \cup {layer_id}
    /\ drainsSinceAdd' = 0
    /\ painted' = painted + 1
    /\ UNCHANGED <<op, area_order, to_global, pre, out, entered, got>>
    /\ UNCHANGED not_fvars

\* graphics.entry(layer_id).set(idx, clip_rect, shape) with the ShapeIdx held:
\* in the frame of the reservation, or in a later frame (a stale ShapeIdx).
\* The call is kept under observation until FSetReturn.
FFill(clip_rect, shape) ==
    /\ op = "frame"
    /\ reserved.state \in {"reserved", "stale"}
    /\ LET g == entry(layers, reserved.layer)
           r == set(get(g, reserved.layer), reserved.idx, clip_rect, shape)
       IN /\ layers' = [g EXCEPT ![reserved.layer.order][reserved.layer.id] = r.list]
          /\ op' = IF r.panic THEN "set_panic" ELSE "set"
    /\ reserved' = [reserved EXCEPT
                       !.state = IF reserved.state = "reserved" THEN "filled" ELSE "stale_used",
                       !.clip_rect = clip_rect,
                       !.shape = shape]
    /\ pre' = layers
    /\ touched' = touched \cup {reserved.layer}
    /\ UNCHANGED <<area_order, to_global, out, drainsSinceAdd, entered, got, painted>>
    /\ UNCHANGED not_fvars

\* set has returned; the widget forgets a ShapeIdx it has used stale.
FSetReturn ==
    /\ op = "set"
    /\ op' = "frame"
    /\ pre' = EmptyLayers
    /\ reserved' = IF reserved.state = "stale_used" THEN NoHandle ELSE reserved
    /\ UNCHANGED <<layers, touched, area_order, to_global, out, drainsSinceAdd, entered, got,
                   painted>>
    /\ UNCHANGED not_fvars

\* The frame driver ends the frame; the area_order names one layer at most
\* and the transform map has one key at most.
FDrain ==
    /\ op = "frame"
    /\ \E ao \in SeqsUpTo(LayerIds, 1), tg \in {t \in ToGlobals : Cardinality(DOMAIN t) <= 1} :
          \E i0 \in IterOrders(DOMAIN retain(layers[Background])),
             i1 \in IterOrders(DOMAIN retain(layers[Middle])),
             i2 \in IterOrders(DOMAIN retain(layers[Foreground])),
             i3 \in IterOrders(DOMAIN retain(layers[Tooltip])),
             i4 \in IterOrders(DOMAIN retain(layers[Debug])) :
                DrainWith(ao, tg, [o \in Orders |-> <<i0, i1, i2, i3, i4>>[o + 1]])

\* The frame driver takes the returned shapes; a ShapeIdx still held is now
\* one of an earlier frame.
FEndFrame ==
    /\ op = "drain"
    /\ op' = "frame"
    /\ touched' = {}
    /\ NoDrain
    /\ painted' = 0
    /\ reserved' = IF reserved.state = "none" THEN reserved
                   ELSE [reserved EXCEPT !.state = "stale"]
    /\ UNCHANGED <<layers, drainsSinceAdd, entered, got>>
    /\ UNCHANGED not_fvars

FrameNext ==
    \/ \E l \in LayerIds, c \in ClipRects : FReserve(l, c)
    \/ \E l \in LayerIds, c \in ClipRects, sh \in Shapes : Add(l, c, sh)
    \/ \E l \in LayerIds, c \in ClipRects, ss \in SeqsUpTo(Shapes, MaxShapes) : Extend(l, c, ss)
    \/ \E c \in SetClipRects, sh \in Shapes : FFill(c, sh)
    \/ FSetReturn
    \/ FDrain
    \/ FEndFrame

FrameSpec == Init /\ [][FrameNext]_vars

(* ---------------------------------------------------------- storage_dir *)
\* A string is the sequence of its characters; a path is a string too.  The
\* pieces the code writes as literals (".local", "Library", ...) are kept
\* whole, as one element.

\* The characters of the app_ids of this model: an upper-case and a
\* lower-case letter, the space, the tab, the vertical tab (U+000B, white
\* space that is not ASCII whitespace to Rust), the path separator, and the
\* colon, which after a letter makes the drive of a Windows path.
Chars == {"M", "a", " ", "\t", "VT", "/", ":"}

\* char::is_ascii_whitespace: space, tab, line feed, form feed, carriage return.
is_ascii_whitespace(c) == c \in {" ", "\t", "\n", "\f", "\r"}

\* A lower-casing that leaves every character as it is.
to_lowercase_char_kept(c) == c

\* char::to_lowercase on the characters of this model.
to_lowercase_char(c) == IF c = "M" THEN "m" ELSE c

\* str::to_lowercase
to_lowercase(str) == [i \in 1 .. Len(str) |-> to_lowercase_char(str[i])]

\* str::replace(|c| c.is_ascii_whitespace(), to): `to` is "" or one character.
RECURSIVE replace(_, _)
replace(str, to) ==
    IF str = <<>> THEN <<>>
    ELSE (IF is_ascii_whitespace(Head(str)) THEN to ELSE <<Head(str)>>) \o replace(Tail(str), to)

\* Path::is_absolute on Unix: the path has a root.
is_absolute(p) == p # <<>> /\ Head(p) = "/"

\* Path::join (PathBuf::push): an absolute operand replaces the path; a
\* separator is put in unless the path is empty or ends with one.
join(p, q) ==
    IF is_absolute(q) THEN q
    ELSE IF p # <<>> /\ p[Len(p)] # "/" THEN p \o <<"/">> \o q
    ELSE p \o q

Some(p) == [some |-> TRUE, path |-> p]

\* Option::map with a path-to-path function given as the joined operand.
map_join(opt, q) == IF opt.some THEN Some(join(opt.path, q)) ELSE opt

\* enum OperatingSystem, as from_target_os() gives it for the build.
OSs == {"Nix", "Mac", "Windows", "Unknown", "Android", "IOS"}

\* Windows paths.  Their characters in this model are those of the app_ids,
\* the letters C and r, and "\"; there is no "?" and no ".", so the prefixes
\* that can be written are the drive (C:) and the UNC prefix (\\server\share),
\* and no component is "." or "..".

\* is_sep_byte on Windows: both "/" and "\" separate components.
is_separator_windows(c) == c \in {"/", "\\"}

\* u8::is_ascii_alphabetic on the characters of this model.
is_ascii_alphabetic(c) == c \in {"M", "a", "m", "C", "r"}

\* Where the first separator of str is: Len(str) + 1 when it has none.
RECURSIVE first_sep(_)
first_sep(str) ==
    IF str = <<>> \/ is_separator_windows(Head(str)) THEN 1 ELSE 1 + first_sep(Tail(str))

\* The length of Path::prefix(), 0 for None: after two separators, a server
\* and a share that are not empty make a UNC prefix, which ends with the
\* share; else a letter and a colon make a drive.
prefix_len(p) ==
    IF Len(p) >= 2 /\ is_separator_windows(p[1]) /\ is_separator_windows(p[2])
    THEN LET after == SubSeq(p, 3, Len(p))
             server == first_sep(after) - 1
             share == first_sep(SubSeq(after, server + 2, Len(after))) - 1
         IN IF server > 0 /\ share > 0 THEN 2 + server + 1 + share ELSE 0
    ELSE IF Len(p) >= 2 /\ is_ascii_alphabetic(p[1]) /\ p[2] = ":" THEN 2
    ELSE 0

has_prefix(p) == prefix_len(p) > 0

\* Path::join (PathBuf::push) on Windows: an operand with a prefix replaces
\* the path; one with a root and no prefix replaces all but the prefix of the
\* path; else a separator is put in unless the path is empty, ends with one,
\* or is a drive and no more.
join_windows(p, q) ==
    LET is_drive == prefix_len(p) = 2 /\ Len(p) = 2
        need_sep == p # <<>> /\ ~is_separator_windows(p[Len(p)]) /\ ~is_drive
    IN IF has_prefix(q) THEN q
       ELSE IF q # <<>> /\ is_separator_windows(Head(q)) THEN SubSeq(p, 1, prefix_len(p)) \o q
       ELSE IF need_sep THEN p \o <<"\\">> \o q
       ELSE p \o q

map_join_windows(opt, q) == IF opt.some THEN Some(join_windows(opt.path, q)) ELSE opt

\* roaming_appdata(): in a build for Windows that is not for UWP, the path
\* SHGetKnownFolderPath gave when it returned S_OK, else None; in every other
\* build, None.  known_folder is the Option that call gives.
roaming_appdata(windows, uwp, known_folder) ==
    IF windows /\ ~uwp THEN known_folder ELSE NoPath

\* storage_dir(app_id) for the target OS `os` (target_vendor "uwp" or not),
\* var_os("XDG_DATA_HOME") = xdg, home::home_dir() = home, and known_folder
\* from SHGetKnownFolderPath.
storage_dir(os, uwp, xdg, home, known_folder, app_id) ==
    IF os = "Nix"
    THEN LET filtered == IF xdg.some /\ is_absolute(xdg.path) THEN xdg ELSE NoPath
             base == IF filtered.some THEN filtered
                     ELSE map_join(map_join(home, <<".local">>), <<"share">>)
         IN map_join(base, replace(to_lowercase(app_id), <<>>))
    ELSE IF os = "Mac"
    THEN map_join(map_join(map_join(home, <<"Library">>), <<"Application Support">>),
                  replace(app_id, <<"-">>))
    ELSE IF os = "Windows"
    THEN map_join_windows(
             map_join_windows(roaming_appdata(os = "Windows", uwp, known_folder), app_id),
             <<"data">>)
    ELSE NoPath

\* The values of XDG_DATA_HOME and of the home directory in this model.
XdgValues == {NoPath, Some(<<"/", "x">>), Some(<<"x">>)}
HomeValues == {NoPath, Some(<<"/", "h">>)}
\* What SHGetKnownFolderPath gives: no folder, one on a drive, or one on a
\* share (a redirected folder).
KnownFolders == {NoPath, Some(<<"C", ":", "\\", "r">>),
                 Some(<<"\\", "\\", "a", "\\", "M", "\\", "r">>)}

\* What the build and the environment are for the target OS `os`: only a
\* Windows target has a vendor that can be "uwp" and a known folder, and only
\* the others read XDG_DATA_HOME or the home directory.
Environments(os) ==
    IF os = "Windows"
    THEN [uwp : BOOLEAN, xdg : {NoPath}, home : {NoPath}, known_folder : KnownFolders]
    ELSE [uwp : {FALSE}, xdg : XdgValues, home : HomeValues, known_folder : {NoPath}]
\* The app_ids: all the short ones, and two longer ones that start as a UNC
\* prefix does, with and without a share.
AppIds == SeqsUpTo(Chars, MaxIdLen) \cup {<<"/", "/", "a", "/", "M">>, <<"/", "/", "a", "/">>}

\* storage_dir(app_id) in some environment, on some target.
StorageDir ==
    /\ dir_call = NoDirCall
    /\ \E os \in OSs, app_id \in AppIds :
          \E env \in Environments(os) :
             /\ dir_call' = [name |-> "storage_dir", os |-> os, uwp |-> env.uwp,
                             xdg |-> env.xdg, home |-> env.home,
                             known_folder |-> env.known_folder, app_id |-> app_id]
             /\ dir_ret' = storage_dir(os, env.uwp, env.xdg, env.home, env.known_folder, app_id)
    /\ UNCHANGED not_dvars

\* The caller has taken the result.
DirReturn ==
    /\ dir_call # NoDirCall
    /\ dir_call' = NoDirCall
    /\ dir_ret' = NoPath
    /\ UNCHANGED not_dvars

DirNext == StorageDir \/ DirReturn

DirSpec == Init /\ [][DirNext]_vars

(* ---------------------------------------------------------- FileStorage *)
\* crates/eframe/src/native/file_storage.rs.  kv is a function from the keys
\* it holds to their values.  flush and drop can block in join, so each is
\* more than one step of the caller.  A save thread, save_to_disk, is two
\* steps or more: File::create leaves the file empty, and the writing fills
\* it; the caller's steps come in between.

Keys == {"egui", "app"}
Values == {"v1", "v2"}

\* The file with the whole RON text of the map m, the file File::create has
\* just made or cut to no bytes, and a file with part of a RON text.
WholeFile(m) == [bytes |-> "whole", kv |-> m]
EmptyFile == [bytes |-> "empty", kv |-> EmptyMap]
PartFile == [bytes |-> "part", kv |-> EmptyMap]

\* What the file can be when the FileStorage is made.
FilesAtStart == {NoFile, PartFile, WholeFile([k \in {"egui"} |-> "v1"])}

\* read_ron: the map of a file that opens and parses, else None.
read_ron(f) == IF f.bytes = "whole" THEN [some |-> TRUE, value |-> f.kv]
               ELSE [some |-> FALSE, value |-> EmptyMap]

SomeString(v) == [some |-> TRUE, value |-> v]

\* FileStorage::get_string: self.kv.get(key).cloned()
get_string(m, key) == IF key \in DOMAIN m THEN SomeString(m[key]) ELSE NoString

\* A set_string that sets the dirty flag whatever the stored value.
set_string_always_dirty(m, d, key, value) ==
    [kv |-> MapInsert(m, key, value), dirty |-> TRUE]

\* FileStorage::set_string: kv and dirty after the call.
set_string(m, d, key, value) ==
    IF get_string(m, key) # SomeString(value)
    THEN [kv |-> MapInsert(m, key, value), dirty |-> TRUE]
    ELSE [kv |-> m, dirty |-> d]

\* The caller is between two calls of the FileStorage.
SIdle == spc = "idle"

\* The call c, which found the store as it is now, returns v.
SReturns(c, v) ==
    /\ scall' = c
    /\ sbefore' = [kv |-> kv, dirty |-> dirty, threads |-> Len(threads)]
    /\ sret' = v
    /\ spc' = "ret"

\* FileStorage::from_ron_filepath: kv is what read_ron gives, or the default.
FromRonFilepath ==
    /\ spc = "new"
    /\ \E f \in FilesAtStart :
          /\ file' = f
          /\ kv' = read_ron(f).value
          /\ loaded' = read_ron(f).value
    /\ dirty' = FALSE
    /\ last_save_join_handle' = 0
    /\ spc' = "idle"
    /\ UNCHANGED <<threads, flush_kv, join_target, scall, sbefore, sret, last_set, writes>>
    /\ UNCHANGED not_svars

\* storage.get_string(key)
GetString ==
    /\ SIdle
    /\ \E key \in Keys : SReturns([name |-> "get_string", key |-> key], get_string(kv, key))
    /\ UNCHANGED <<kv, dirty, last_save_join_handle, threads, file, flush_kv, join_target,
                   loaded, last_set, writes>>
    /\ UNCHANGED not_svars

\* storage.set_string(key, value)
SetString ==
    /\ SIdle
    /\ \E key \in Keys, value \in Values :
          /\ SReturns([name |-> "set_string", key |-> key, value |-> value], NoString)
          /\ \E r \in {set_string(kv, dirty, key, value)} :
                /\ kv' = r.kv
                /\ dirty' = r.dirty
          /\ last_set' = [name |-> "set_string", key |-> key, value |-> value]
    /\ UNCHANGED <<last_save_join_handle, threads, file, flush_kv, join_target, loaded, writes>>
    /\ UNCHANGED not_svars

\* storage.flush() with dirty false: nothing to do.
FlushClean ==
    /\ SIdle
    /\ ~dirty
    /\ SReturns([name |-> "flush"], NoString)
    /\ UNCHANGED <<kv, dirty, last_save_join_handle, threads, file, flush_kv, join_target,
                   loaded, last_set, writes>>
    /\ UNCHANGED not_svars

\* storage.flush() with dirty true, up to the join: the flag is cleared, kv
\* is cloned and the handle is taken.
FlushBegin ==
    /\ SIdle
    /\ dirty
    /\ Len(threads) < MaxSaves
    /\ scall' = [name |-> "flush"]
    /\ sbefore' = [kv |-> kv, dirty |-> dirty, threads |-> Len(threads)]
    /\ sret' = NoString
    /\ dirty' = FALSE
    /\ flush_kv' = kv
    /\ join_target' = last_save_join_handle
    /\ last_save_join_handle' = 0
    /\ spc' = IF last_save_join_handle # 0 THEN "flush_join" ELSE "flush_spawn"
    /\ UNCHANGED <<kv, threads, file, loaded, last_set, writes>>
    /\ UNCHANGED not_svars

\* A flush that does not wait for the save thread whose handle it took.
FlushNoJoin ==
    /\ spc = "flush_join"
    /\ spc' = "flush_spawn"
    /\ UNCHANGED <<kv, dirty, last_save_join_handle, threads, file, flush_kv, join_target,
                   loaded, scall, sbefore, sret, last_set, writes>>
    /\ UNCHANGED not_svars

\* join_handle.join().ok() in flush: goes on when that save thread has ended.
FlushJoin ==
    /\ spc = "flush_join"
    /\ threads[join_target].state = "done"
    /\ spc' = "flush_spawn"
    /\ UNCHANGED <<kv, dirty, last_save_join_handle, threads, file, flush_kv, join_target,
                   loaded, scall, sbefore, sret, last_set, writes>>
    /\ UNCHANGED not_svars

\* std::thread::Builder::spawn in flush: Ok with the handle of a new save
\* thread, which owns the clone of kv, or Err, which is logged.
FlushSpawn ==
    /\ spc = "flush_spawn"
    /\ \E ok \in BOOLEAN :
          IF ok
          THEN /\ threads' = Append(threads, [kv |-> flush_kv, state |-> "running"])
               /\ last_save_join_handle' = Len(threads) + 1
          ELSE UNCHANGED <<threads, last_save_join_handle>>
    /\ spc' = "ret"
    /\ flush_kv' = EmptyMap
    /\ join_target' = 0
    /\ UNCHANGED <<kv, dirty, file, loaded, scall, sbefore, sret, last_set, writes>>
    /\ UNCHANGED not_svars

\* save_to_disk in the save thread t, up to File::create: Ok leaves the file
\* with no bytes, whatever it held; Err is logged, the file stays and the
\* thread ends.
SaveToDiskCreate ==
    /\ \E t \in DOMAIN threads :
          /\ threads[t].state = "running"
          /\ \E ok \in BOOLEAN :
                IF ok
                THEN /\ file' = EmptyFile
                     /\ threads' = [threads EXCEPT ![t].state = "writing"]
                     /\ UNCHANGED writes
                ELSE /\ threads' = [threads EXCEPT ![t].state = "done"]
                     /\ writes' = Append(writes, t)
                     /\ UNCHANGED file
    /\ UNCHANGED <<kv, dirty, last_save_join_handle, spc, flush_kv, join_target, loaded,
                   scall, sbefore, sret, last_set>>
    /\ UNCHANGED not_svars

\* save_to_disk in the save thread t, to_io_writer_pretty and flush: a part
\* of the text reaches the file and the thread goes on; or the rest does and
\* the file holds the thread's kv; or the writing fails, which is logged, and
\* the file is left as far as it was written.  In the last two the thread
\* ends.
SaveToDiskWrite ==
    /\ \E t \in DOMAIN threads :
          /\ threads[t].state = "writing"
          /\ \E outcome \in {"part", "written", "failed"} :
                CASE outcome = "part" ->
                        /\ file.bytes = "empty"
                        /\ file' = PartFile
                        /\ UNCHANGED <<threads, writes>>
                  [] outcome = "written" ->
                        /\ file' = WholeFile(threads[t].kv)
                        /\ threads' = [threads EXCEPT ![t].state = "done"]
                        /\ writes' = Append(writes, t)
                  [] OTHER ->
                        /\ threads' = [threads EXCEPT ![t].state = "done"]
                        /\ writes' = Append(writes, t)
                        /\ UNCHANGED file
    /\ UNCHANGED <<kv, dirty, last_save_join_handle, spc, flush_kv, join_target, loaded,
                   scall, sbefore, sret, last_set>>
    /\ UNCHANGED not_svars

\* The caller goes on after a call returned.
SReturn ==
    /\ spc = "ret"
    /\ spc' = "idle"
    /\ scall' = NoSCall
    /\ sbefore' = NoBefore
    /\ sret' = NoString
    /\ UNCHANGED <<kv, dirty, last_save_join_handle, threads, file, flush_kv, join_target,
                   loaded, last_set, writes>>
    /\ UNCHANGED not_svars

\* drop(storage), up to the join: the handle is taken.
DropBegin ==
    /\ SIdle
    /\ join_target' = last_save_join_handle
    /\ last_save_join_handle' = 0
    /\ spc' = IF last_save_join_handle # 0 THEN "drop_join" ELSE "dropped"
    /\ UNCHANGED <<kv, dirty, threads, file, flush_kv, loaded, scall, sbefore, sret, last_set,
                   writes>>
    /\ UNCHANGED not_svars

\* join_handle.join().ok() in drop: returns when that save thread has ended.
DropJoin ==
    /\ spc = "drop_join"
    /\ threads[join_target].state = "done"
    /\ spc' = "dropped"
    /\ UNCHANGED <<kv, dirty, last_save_join_handle, threads, file, flush_kv, join_target,
                   loaded, scall, sbefore, sret, last_set, writes>>
    /\ UNCHANGED not_svars

StorageNext ==
    \/ FromRonFilepath
    \/ GetString
    \/ SetString
    \/ FlushClean
    \/ FlushBegin
    \/ FlushJoin
    \/ FlushSpawn
    \/ SaveToDiskCreate
    \/ SaveToDiskWrite
    \/ SReturn
    \/ DropBegin
    \/ DropJoin

StorageSpec == Init /\ [][StorageNext]_vars

(* ---------------------------------------------------------------- Strip *)
\* crates/egui_extras/src/strip.rs.  The StripLayout is what it was given:
\* the sequence of the cells added, each with its width and height.

\* The lengths that Sizing::to_lengths gives in this model.
Lengths == {10, 20}

\* The size of a cell added when no pre-allocated size is left.
FallbackSize == 8

\* CellSize::Absolute and CellSize::Remainder
Absolute(size) == [kind |-> "Absolute", size |-> size]
Remainder == [kind |-> "Remainder", size |-> 0]

\* crate::log_or_panic!: a panic in a build with debug assertions, a logged
\* error in one without.
log_or_panic(debug) == debug

\* A next_cell_size that advances size_index also when no size is left.
next_cell_size_always_advances(s, debug) ==
    LET has == s.size_index < Len(s.sizes)
        size == IF has THEN s.sizes[s.size_index + 1] ELSE FallbackSize
    IN [strip |-> [s EXCEPT !.size_index = @ + 1],
        panic |-> ~has /\ log_or_panic(debug),
        width |-> IF s.direction = "Horizontal" THEN Absolute(size) ELSE Remainder,
        height |-> IF s.direction = "Horizontal" THEN Remainder ELSE Absolute(size)]

\* Strip::next_cell_size: the Strip after the call, whether the call
\* panicked, and the (width, height) it returned.
next_cell_size(s, debug) ==
    LET has == s.size_index < Len(s.sizes)
        size == IF has THEN s.sizes[s.size_index + 1] ELSE FallbackSize
    IN [strip |-> IF has THEN [s EXCEPT !.size_index = @ + 1] ELSE s,
        panic |-> ~has /\ log_or_panic(debug),
        width |-> IF s.direction = "Horizontal" THEN Absolute(size) ELSE Remainder,
        height |-> IF s.direction = "Horizontal" THEN Remainder ELSE Absolute(size)]

\* StripLayout::add and StripLayout::empty: one more cell in the layout.
layout_add(c, width, height, id) ==
    Append(c, [kind |-> "cell", width |-> width, height |-> height, id |-> id])
layout_empty(c, width, height) ==
    Append(c, [kind |-> "empty", width |-> width, height |-> height, id |-> 0])

\* Strip::cell: the Strip and the layout after the call, and whether it
\* panicked (then nothing was added).
cell(s, c, debug) ==
    LET n == next_cell_size(s, debug)
    IN [strip |-> n.strip, panic |-> n.panic,
        cells |-> IF n.panic THEN c
                  ELSE layout_add(c, n.width, n.height, n.strip.size_index)]

\* Strip::empty
empty(s, c, debug) ==
    LET n == next_cell_size(s, debug)
    IN [strip |-> n.strip, panic |-> n.panic,
        cells |-> IF n.panic THEN c ELSE layout_empty(c, n.width, n.height)]

\* Drop for Strip: while self.size_index < self.sizes.len() { self.empty() }
RECURSIVE drop(_, _, _)
drop(s, c, debug) ==
    IF s.size_index < Len(s.sizes)
    THEN LET r == empty(s, c, debug) IN drop(r.strip, r.cells, debug)
    ELSE [strip |-> s, cells |-> c]

\* StripBuilder::horizontal / vertical up to the call of the closure: the
\* Strip gets the lengths of the pre-allocated sizes and size_index 0.
StripBuild ==
    /\ stp = "new"
    /\ \E lengths \in SeqsUpTo(Lengths, MaxSizes), direction \in {"Horizontal", "Vertical"} :
          strip' = [sizes |-> lengths, size_index |-> 0, direction |-> direction]
    /\ \E debug \in BOOLEAN : debug_assertions' = debug
    /\ cells' = <<>>
    /\ stp' = "open"
    /\ UNCHANGED <<strip_call, strip_before, extra>>
    /\ UNCHANGED not_tvars

\* The caller can make a call: it is in the closure and no call is observed.
StripIdle == stp = "open" /\ strip_call = NoStripCall

\* The call named `name` ends with the result r: it returns, or it panics and
\* the stack unwinds.
StripReturns(name, r) ==
    /\ strip' = r.strip
    /\ cells' = r.cells
    /\ stp' = IF r.panic THEN "unwinding" ELSE "open"
    /\ strip_call' = [name |-> name]
    /\ strip_before' = [size_index |-> strip.size_index, cells |-> Len(cells)]
    /\ extra' = IF strip.size_index < Len(strip.sizes) THEN extra ELSE extra + 1
    /\ UNCHANGED debug_assertions
    /\ UNCHANGED not_tvars

\* strip.cell(add_contents), and strip.strip(..), which is a cell
Cell ==
    /\ StripIdle
    /\ strip.size_index < Len(strip.sizes) \/ extra < MaxExtra
    /\ StripReturns("cell", cell(strip, cells, debug_assertions))

\* strip.empty()
Empty ==
    /\ StripIdle
    /\ strip.size_index < Len(strip.sizes) \/ extra < MaxExtra
    /\ StripReturns("empty", empty(strip, cells, debug_assertions))

\* The caller goes on in the closure after a call returned.
StripReturn ==
    /\ stp = "open"
    /\ strip_call # NoStripCall
    /\ strip_call' = NoStripCall
    /\ strip_before' = NoStripBefore
    /\ UNCHANGED <<strip, cells, stp, debug_assertions, extra>>
    /\ UNCHANGED not_tvars

\* The closure ends, or a panic unwinds through it: the Strip is dropped.
StripDrop ==
    /\ stp = "unwinding" \/ StripIdle
    /\ \E r \in {drop(strip, cells, debug_assertions)} :
          /\ strip' = r.strip
          /\ cells' = r.cells
    /\ stp' = IF stp = "unwinding" THEN "dropped_unwinding" ELSE "dropped"
    /\ strip_call' = NoStripCall
    /\ strip_before' = NoStripBefore
    /\ UNCHANGED <<debug_assertions, extra>>
    /\ UNCHANGED not_tvars

StripNext ==
    \/ StripBuild
    \/ Cell
    \/ Empty
    \/ StripReturn
    \/ StripDrop

StripSpec == Init /\ [][StripNext]_vars

(* ------------------------------------------------ reading a drain result *)

\* drain has just returned: pre, area_order, to_global and out are its.
Drained == op = "drain"

AllLayerIds == {LayerIdNew(o, i) : o \in Orders, i \in Ids}

\* The list a layer held when the drain started (empty when it had no slot).
PreList(l) == IF has_slot(pre, l) THEN get(pre, l) ELSE <<>>

PreSlots == {l \in AllLayerIds : has_slot(pre, l)}
NonEmptyPre == {l \in PreSlots : ~is_empty(PreList(l))}

UidsOf(list) == {list[k].uid : k \in DOMAIN list}

\* The positions of the output that hold an entry of layer l.
OutOf(l) == {i \in DOMAIN out : out[i].uid \in UidsOf(PreList(l))}

\* Every entry of x is emitted before every entry of y.
Before(x, y) == \A i \in OutOf(x), j \in OutOf(y) : i < j

Listed(l) == \E i \in DOMAIN area_order : area_order[i] = l
FirstPos(l) == CHOOSE i \in DOMAIN area_order :
                  area_order[i] = l /\ \A j \in 1 .. (i - 1) : area_order[j] # l

\* The positions of the output holding the object uid.
PosOfUid(u) == {i \in DOMAIN out : out[i].uid = u}

(* ---------------------------------------------------------------- claims *)

\* C1: in the sequence drain returns, every entry that came from a layer of a
\* lower Order is before every entry that came from a layer of a higher Order.
C1_OrderSequencing ==
    Drained => \A x \in PreSlots, y \in PreSlots : x.order < y.order => Before(x, y)

\* C1 witness: both a lower and a higher layer were emitted although area_order
\* named the higher one first.
C1_Witness ==
    /\ Drained
    /\ \E x \in NonEmptyPre, y \in NonEmptyPre :
          /\ x.order < y.order
          /\ area_order = <<y, x>>
          /\ OutOf(x) # {} /\ OutOf(y) # {}

\* C2: of two non-empty layers of one Order that area_order names, the one
\* whose first occurrence in area_order is earlier is emitted wholly before
\* the other, whichever was painted first.
C2_AreaOrderWithinCategory ==
    Drained =>
        \A x \in NonEmptyPre, y \in NonEmptyPre :
            (/\ x # y /\ x.order = y.order
             /\ Listed(x) /\ Listed(y)
             /\ FirstPos(y) < FirstPos(x)) => Before(y, x)

\* C2 witness: x was painted before y, area_order is <<y, x>>, both emitted.
C2_Witness ==
    /\ Drained
    /\ \E x \in NonEmptyPre, y \in NonEmptyPre :
          /\ x # y /\ x.order = y.order
          /\ area_order = <<y, x>>
          /\ \A a \in UidsOf(PreList(x)), b \in UidsOf(PreList(y)) : a < b
          /\ OutOf(x) # {} /\ OutOf(y) # {}

\* C3: a non-empty layer that area_order does not name is emitted whole, after
\* every layer of its Order that area_order names and before every entry of a
\* higher Order.
C3_UnlistedLayersEmitted ==
    Drained =>
        \A u \in NonEmptyPre :
            ~Listed(u) =>
                /\ \A a \in UidsOf(PreList(u)) : PosOfUid(a) # {}
                /\ \A x \in NonEmptyPre : (Listed(x) /\ x.order = u.order) => Before(x, u)
                /\ \A h \in PreSlots : h.order > u.order => Before(u, h)

\* C3 witness: an unnamed layer, a named layer of the same Order and a layer
\* of a higher Order were all emitted by one drain.
C3_Witness ==
    /\ Drained
    /\ \E u \in NonEmptyPre, x \in NonEmptyPre, h \in NonEmptyPre :
          /\ ~Listed(u) /\ Listed(x) /\ x.order = u.order /\ x # u
          /\ h.order > u.order
          /\ OutOf(u) # {} /\ OutOf(x) # {} /\ OutOf(h) # {}


\* The number of entries held by all the lists of g.
TotalLen(g) ==
    Cardinality({t \in Orders \X Ids \X (1 .. MaxShapes + 1) :
                    t[2] \in DOMAIN g[t[1]] /\ t[3] <= Len(g[t[1]][t[2]])})

\* C4: drain moves every stored entry to the output exactly once: the output
\* is as long as all the lists together were, every stored object is at
\* exactly one position of it, and it holds nothing else; also when area_order
\* repeats a LayerId or names a layer without a slot.
C4_EveryEntryExactlyOnce ==
    Drained =>
        /\ Len(out) = TotalLen(pre)
        /\ \A e \in AllEntries(pre) : Cardinality(PosOfUid(e.uid)) = 1
        /\ \A i \in DOMAIN out : \E e \in AllEntries(pre) : e.uid = out[i].uid

\* C4 witness: area_order named one non-empty layer twice, and another
\* non-empty layer was left to the second loop.
C4_Witness ==
    /\ Drained
    /\ \E x \in NonEmptyPre, u \in NonEmptyPre :
          /\ x # u
          /\ area_order = <<x, x>>
          /\ Len(out) = Len(PreList(x)) + Len(PreList(u))

\* C5: the entries of one layer are one contiguous block of the output, in the
\* order of their indices in the layer's list.
C5_ContiguousInInsertionOrder ==
    Drained =>
        \A l \in NonEmptyPre :
            \E s \in 0 .. Len(out) :
                /\ s + Len(PreList(l)) <= Len(out)
                /\ \A k \in DOMAIN PreList(l) : out[s + k].uid = PreList(l)[k].uid

\* C5 witness: a layer holding two entries was emitted by the second loop and
\* a layer named in area_order by the first.
C5_Witness ==
    /\ Drained
    /\ \E u \in NonEmptyPre, x \in NonEmptyPre :
          /\ ~Listed(u) /\ Listed(x)
          /\ Len(PreList(u)) = 2
          /\ Len(out) = 3

\* C6: drain removes the slot of a layer if and only if the layer's list was
\* empty when the drain started.
C6_PrunedIffEmptyAtStart ==
    Drained =>
        \A l \in PreSlots : (~has_slot(layers, l)) <=> is_empty(PreList(l))

\* C6 witness: one drain removed an empty slot and kept a non-empty one.
C6_Witness ==
    /\ Drained
    /\ \E l \in PreSlots : is_empty(PreList(l)) /\ ~has_slot(layers, l)
    /\ \E l \in NonEmptyPre : has_slot(layers, l)

\* C7: after drain every slot that still exists holds an empty list.
C7_SurvivorsAreEmpty ==
    Drained => \A l \in AllLayerIds : has_slot(layers, l) => is_empty(get(layers, l))

\* C7 witness: a layer named in area_order and a layer not named in it, both
\* non-empty before, both have a slot after the drain.
C7_Witness ==
    /\ Drained
    /\ \E x \in NonEmptyPre, u \in NonEmptyPre :
          /\ Listed(x) /\ ~Listed(u)
          /\ has_slot(layers, x) /\ has_slot(layers, u)

\* C8 as stated: drain removes a slot only if the layer was not given to
\* entry() in the frame and its list is empty; a layer given to entry() in the
\* frame is drained, not removed.
C8_Original ==
    Drained =>
        \A l \in PreSlots :
            /\ ~has_slot(layers, l) => (l \notin touched /\ is_empty(PreList(l)))
            /\ l \in touched => has_slot(layers, l)

\* C8 amended: drain removes a slot only if its list is empty when the drain
\* starts; a layer given to entry() in the frame is drained and keeps its slot
\* when an entry was added to it, and is removed when it was left empty.
C8_RemovedOnlyIfEmpty ==
    Drained =>
        \A l \in PreSlots :
            /\ ~has_slot(layers, l) => is_empty(PreList(l))
            /\ (l \in touched /\ ~is_empty(PreList(l))) =>
                  /\ has_slot(layers, l)
                  /\ \A a \in UidsOf(PreList(l)) : PosOfUid(a) # {}
            /\ (l \in touched /\ is_empty(PreList(l))) => ~has_slot(layers, l)

\* C8 witness: of two layers given to entry() in the frame, the one left
\* empty was removed and the one painted into was drained and kept.
C8_Witness ==
    /\ Drained
    /\ \E l \in PreSlots : l \in touched /\ is_empty(PreList(l)) /\ ~has_slot(layers, l)
    /\ \E l \in NonEmptyPre : l \in touched /\ has_slot(layers, l) /\ OutOf(l) # {}

\* C9: a drain that follows another drain with no add or extend in between
\* returns an empty sequence.
C9_SecondDrainEmpty ==
    (Drained /\ drainsSinceAdd = 2) => out = <<>>

\* C9 witness: the second of two drains found the slots the first had emptied
\* (no entry() in between), and was given an area_order and a transform map.
C9_Witness ==
    /\ Drained /\ drainsSinceAdd = 2
    /\ touched = {}
    /\ PreSlots # {}
    /\ \E l \in PreSlots : Listed(l) /\ l \in DOMAIN to_global

\* What drain must emit for the entry e of layer l.
Emitted(e, l) ==
    IF l \in DOMAIN to_global
    THEN [e EXCEPT !.clip_rect = mul_rect(to_global[l], @),
                   !.shape = shape_transform(to_global[l], @)]
    ELSE e

\* C10: an entry of a layer with a transform registered for its LayerId is
\* emitted with clip rectangle and shape transformed by it once; an entry of a
\* layer with none is emitted unchanged, also when a transform is registered
\* for the same Id under another Order.
C10_TransformOnce ==
    Drained =>
        \A l \in NonEmptyPre : \A k \in DOMAIN PreList(l) :
            /\ PosOfUid(PreList(l)[k].uid) # {}
            /\ \A i \in PosOfUid(PreList(l)[k].uid) : out[i] = Emitted(PreList(l)[k], l)

\* C10 witness: a layer with a registered transform was named twice in
\* area_order, and the layer of the same Id in another Order, with no
\* transform of its own, was emitted by the second loop.
C10_Witness ==
    /\ Drained
    /\ \E l \in NonEmptyPre, m \in NonEmptyPre :
          /\ l.id = m.id /\ l.order # m.order
          /\ l \in DOMAIN to_global /\ m \notin DOMAIN to_global
          /\ area_order = <<l, l>>
          /\ \E i \in OutOf(l) : out[i].clip_rect # PreList(l)[1].clip_rect
          /\ \E i \in OutOf(m) : out[i].clip_rect = PreList(m)[1].clip_rect

(* ------------------------------------------- claims about one PaintList *)

\* The number of add calls made on the list.
Adds == Cardinality(handles)

\* C11: on a list filled by add calls only, the Nth add returns the ShapeIdx
\* N-1, which is what next_idx() gave just before it; next_idx() leaves the
\* list as it is.
C11_NextIdxIsAddIndex ==
    /\ (lcall.name = "add" /\ Adds = Len(paint_list)) =>
          /\ lret = ShapeIdx(Adds - 1)
          /\ lret = ShapeIdx(next_idx(lbefore))
    /\ lcall.name = "next_idx" =>
          /\ paint_list = lbefore
          /\ lret = Len(lbefore)

\* C11 witness: the third of three add calls has returned.
C11_Witness ==
    /\ lcall.name = "add"
    /\ Adds = 3 /\ Len(paint_list) = 3
    /\ lret = ShapeIdx(2)

\* C12: every entry stays at the position it was pushed at, and every
\* ShapeIdx an add returned still designates the slot that add pushed,
\* whatever add, extend, set, mutate_shape, reset_shape and transform calls
\* followed; add and extend leave the earlier entries as they were.
C12_IndicesStable ==
    /\ \A k \in DOMAIN paint_list : paint_list[k].uid = k
    /\ \A h \in handles :
          /\ InBounds(paint_list, h.idx.i)
          /\ paint_list[h.idx.i + 1].uid = h.uid
    /\ lcall.name \in {"add", "extend"} =>
          /\ Len(lbefore) <= Len(paint_list)
          /\ \A k \in DOMAIN lbefore : paint_list[k] = lbefore[k]

\* C12 witness: an add, then an edit in place, then an extend that pushed
\* entries behind the slot of the add.
C12_Witness ==
    /\ lcall.name = "extend" /\ Len(lbefore) < Len(paint_list)
    /\ edits = 1
    /\ \E h \in handles : h.idx = ShapeIdx(0) /\ paint_list[1].uid = h.uid

\* All entries but the one at position k are as before the call.
OthersUnchanged(k) ==
    /\ Len(paint_list) = Len(lbefore)
    /\ \A j \in DOMAIN lbefore : j # k => paint_list[j] = lbefore[j]

\* C13: set with idx.0 < len puts the given clip rectangle and shape at idx
\* and changes neither the length nor any other entry.
C13_SetReplacesEntry ==
    (lcall.name = "set" /\ lcall.idx.i < Len(lbefore)) =>
        /\ ~panicked
        /\ paint_list[lcall.idx.i + 1].clip_rect = lcall.clip_rect
        /\ paint_list[lcall.idx.i + 1].shape = lcall.shape
        /\ OthersUnchanged(lcall.idx.i + 1)

\* C13 witness: set on the middle entry of three gave it a new clip rectangle
\* and a new shape.
C13_Witness ==
    /\ lcall.name = "set" /\ lcall.idx = ShapeIdx(1) /\ Len(lbefore) = 3
    /\ paint_list[2].clip_rect # lbefore[2].clip_rect
    /\ paint_list[2].shape # lbefore[2].shape

\* C14: set with idx.0 >= len returns without a panic and leaves the list as
\* it was, also for idx.0 == len and on the empty list.
C14_SetOutOfBoundsNoOp ==
    (lcall.name = "set" /\ lcall.idx.i >= Len(lbefore)) =>
        ~panicked /\ paint_list = lbefore

\* C14 witness: set with idx.0 == len on a list of two entries.
C14_Witness ==
    /\ lcall.name = "set" /\ Len(lbefore) = 2 /\ lcall.idx = ShapeIdx(2)
    /\ ~panicked

\* The call under observation was given a ShapeIdx outside the bounds of the list.
OutOfRange ==
    \/ lcall.name \in {"set", "reset_shape", "mutate_shape"} /\ lcall.idx.i >= Len(lbefore)
    \/ lcall.name = "transform_range"
          /\ (lcall.start.i > Len(lbefore) \/ lcall.end.i > Len(lbefore))

\* C15 as stated: set, reset_shape, mutate_shape and transform_range with an
\* index outside the bounds do not panic and leave the list unchanged.
C15_Original ==
    OutOfRange => (~panicked /\ paint_list = lbefore)

\* C15 amended: with an index outside the bounds, set and mutate_shape return
\* without a panic and leave the list unchanged; reset_shape and
\* transform_range panic, the list not modified.
C15_OutOfRangeByOperation ==
    OutOfRange =>
        /\ paint_list = lbefore
        /\ panicked <=> lcall.name \in {"reset_shape", "transform_range"}

\* C15 witness: reset_shape with idx.0 == len panicked.
C15_Witness ==
    /\ lcall.name = "reset_shape" /\ Len(lbefore) = 2 /\ lcall.idx = ShapeIdx(2)
    /\ panicked

\* C16: mutate_shape with idx in bounds applies f once to the entry at idx and
\* changes neither the length nor any other entry; with idx out of bounds the
\* list is unchanged.
C16_MutateShapeOnce ==
    lcall.name = "mutate_shape" =>
        /\ ~panicked
        /\ IF lcall.idx.i < Len(lbefore)
           THEN /\ paint_list[lcall.idx.i + 1] = apply_f(lcall.f, lbefore[lcall.idx.i + 1])
                /\ OthersUnchanged(lcall.idx.i + 1)
           ELSE paint_list = lbefore

\* C16 witness: mutate_shape changed the middle entry of three.
C16_Witness ==
    /\ lcall.name = "mutate_shape" /\ lcall.idx = ShapeIdx(1) /\ Len(lbefore) = 3
    /\ paint_list[2] # lbefore[2]

\* The entry e moved by t: clip rectangle and shape, the slot the same.
MovedBy(e, t, was) ==
    /\ e.clip_rect = mul_rect(t, was.clip_rect)
    /\ e.shape = shape_transform(t, was.shape)
    /\ e.uid = was.uid

\* C17: transform_range with start <= end <= len moves clip rectangle and
\* shape of the entries at the indices of [start, end) and leaves the others
\* and the length as they were.
C17_TransformRangeOnlyInRange ==
    (/\ lcall.name = "transform_range"
     /\ lcall.start.i <= lcall.end.i /\ lcall.end.i <= Len(lbefore)) =>
        /\ ~panicked
        /\ Len(paint_list) = Len(lbefore)
        /\ \A k \in DOMAIN lbefore :
              IF lcall.start.i <= k - 1 /\ k - 1 < lcall.end.i
              THEN MovedBy(paint_list[k], lcall.t, lbefore[k])
              ELSE paint_list[k] = lbefore[k]

\* C17 witness: transform_range(1, 2) on three entries moved the middle one
\* and left its two neighbours.
C17_Witness ==
    /\ lcall.name = "transform_range" /\ Len(lbefore) = 3
    /\ lcall.start = ShapeIdx(1) /\ lcall.end = ShapeIdx(2)
    /\ paint_list[2] # lbefore[2]
    /\ paint_list[1] = lbefore[1] /\ paint_list[3] = lbefore[3]

\* C18: transform moves the clip rectangle and the shape of every entry,
\* keeps length and order, and gives what transform_range(ShapeIdx(0),
\* next_idx(), t) gives.
C18_TransformAll ==
    lcall.name = "transform" =>
        /\ ~panicked
        /\ Len(paint_list) = Len(lbefore)
        /\ \A k \in DOMAIN lbefore : MovedBy(paint_list[k], lcall.t, lbefore[k])
        /\ Done(paint_list) =
              transform_range(lbefore, ShapeIdx(0), ShapeIdx(next_idx(lbefore)), lcall.t)

\* C18 witness: transform on three entries, a circle among them.
C18_Witness ==
    /\ lcall.name = "transform" /\ Len(lbefore) = 3
    /\ \E k \in 1 .. 3 : lbefore[k].shape.kind = "Circle" /\ paint_list[k].shape # lbefore[k].shape
    /\ \A k \in 1 .. 3 : paint_list[k].clip_rect # lbefore[k].clip_rect

\* The list after add(clip_rect, s) for each s of shapes, in order.
RECURSIVE AddEach(_, _, _)
AddEach(l, clip_rect, shapes) ==
    IF shapes = <<>> THEN l
    ELSE AddEach(add(l, clip_rect, Head(shapes), Len(l) + 1), clip_rect, Tail(shapes))

\* C19: extend leaves the list as add(clip_rect, s) for each s of shapes in
\* order would: the earlier entries untouched, next_idx() larger by the number
\* of shapes.
C19_ExtendIsRepeatedAdd ==
    lcall.name = "extend" =>
        /\ paint_list = AddEach(lbefore, lcall.clip_rect, lcall.shapes)
        /\ next_idx(paint_list) = next_idx(lbefore) + Len(lcall.shapes)
        /\ \A k \in DOMAIN lbefore : paint_list[k] = lbefore[k]
        /\ \A i \in DOMAIN lcall.shapes :
              /\ paint_list[Len(lbefore) + i].shape = lcall.shapes[i]
              /\ paint_list[Len(lbefore) + i].clip_rect = lcall.clip_rect

\* C19 witness: extend pushed two different shapes behind an earlier entry.
C19_Witness ==
    /\ lcall.name = "extend" /\ Len(lbefore) = 1
    /\ Len(lcall.shapes) = 2 /\ lcall.shapes[1] # lcall.shapes[2]
    /\ Len(paint_list) = 3

\* C23: reset_shape with idx in bounds puts the no-op shape at idx, keeps the
\* clip rectangle of that entry, and changes neither the length nor any other
\* entry.
C23_ResetShapeInBounds ==
    (lcall.name = "reset_shape" /\ lcall.idx.i < Len(lbefore)) =>
        /\ ~panicked
        /\ Len(paint_list) = Len(lbefore)
        /\ paint_list[lcall.idx.i + 1].shape = Noop
        /\ paint_list[lcall.idx.i + 1].clip_rect = lbefore[lcall.idx.i + 1].clip_rect
        /\ OthersUnchanged(lcall.idx.i + 1)

\* C23 witness: reset_shape on the middle one of three entries, a circle
\* before the call, the entry behind it a circle still at its index.
C23_Witness ==
    /\ lcall.name = "reset_shape" /\ lcall.idx = ShapeIdx(1)
    /\ Len(lbefore) = 3 /\ lbefore[2].shape.kind = "Circle"
    /\ paint_list[2].shape = Noop
    /\ Len(paint_list) = 3 /\ paint_list[3].shape.kind = "Circle"

\* ---- claims about GraphicLayers::entry ----

\* C20: entry(layer_id) creates a slot with an empty PaintList when there is
\* none, returns the list that is there with its contents when there is one,
\* and in both cases leaves the slots and the contents of every other layer
\* as they were.
C20_EntryGetOrCreate ==
    op = "entry" =>
        /\ has_slot(layers, entered)
        /\ IF has_slot(pre, entered)
           THEN get(layers, entered) = get(pre, entered)
           ELSE get(layers, entered) = <<>>
        /\ \A order \in Orders : \A id \in Ids :
              LET l == LayerIdNew(order, id)
              IN l # entered =>
                    /\ has_slot(layers, l) = has_slot(pre, l)
                    /\ has_slot(pre, l) => get(layers, l) = get(pre, l)

\* C20 witness: entry() on a layer whose list holds entries, another layer
\* holding entries too.
C20_Witness ==
    /\ op = "entry"
    /\ has_slot(pre, entered) /\ get(pre, entered) # <<>>
    /\ \E l \in LayerIds : l # entered /\ has_slot(pre, l) /\ get(pre, l) # <<>>

\* C21: get and get_mut on a LayerId that has no slot return None and leave
\* the set of slots as it was, and drain creates no slot: not for a LayerId of
\* area_order, not for a key of the transform map.
C21_OnlyEntryCreates ==
    /\ op \in {"get", "get_mut"} =>
          /\ got.found = has_slot(pre, entered)
          /\ \A l \in AllLayerIds : has_slot(layers, l) = has_slot(pre, l)
    /\ Drained =>
          \A l \in AllLayerIds : has_slot(layers, l) => has_slot(pre, l)

\* C21 witness: get_mut found nothing for a LayerId whose Id has a slot in
\* another Order.
C21_Witness ==
    /\ op = "get_mut" /\ ~got.found
    /\ ~has_slot(layers, entered)
    /\ \E l \in LayerIds : l # entered /\ l.id = entered.id /\ has_slot(layers, l)

\* C24: drain does not panic, whatever the layers hold, whatever area_order
\* names (a LayerId twice, a LayerId with no slot) and whatever the keys of the
\* transform map; it returns a sequence.
C24_DrainNeverPanics ==
    /\ op # "drain_panic"
    /\ Drained => DOMAIN out = 1 .. Len(out)

\* C24 witness: a drain returned entries although area_order named one
\* LayerId twice that had no slot and the transform map had a key with no slot.
C24_Witness ==
    /\ Drained /\ out # <<>>
    /\ \E x \in LayerIds :
          /\ area_order = <<x, x>> /\ ~has_slot(pre, x)
          /\ \E k \in DOMAIN to_global : ~has_slot(pre, k)

\* The slot of l in g: whether there is one, and its list.
Slot(g, l) == IF has_slot(g, l) THEN <<TRUE, get(g, l)>> ELSE <<FALSE, <<>>>>

\* Two LayerIds of one Id in two Orders.
SameIdPairs == {p \in AllLayerIds \X AllLayerIds : p[1].id = p[2].id /\ p[1].order # p[2].order}

\* The LayerIds that have a slot in g.
Slots(g) == {l \in AllLayerIds : has_slot(g, l)}

\* One PaintList for a pair (Order, id) at most and no stored object in two
\* of them; a lookup gives the list of the LayerId asked for; a drain emits
\* the entries of each of two layers of one Id as that layer held them, moved
\* by the transform of that LayerId only.
OwnLists ==
    /\ \A o \in Orders : DOMAIN layers[o] \subseteq Ids
    /\ \A a \in Slots(layers), b \in Slots(layers) :
          a # b => UidsOf(get(layers, a)) \cap UidsOf(get(layers, b)) = {}
    /\ (op \in {"get", "get_mut"} /\ got.found) =>
          got.list = pre[entered.order][entered.id]
    /\ Drained =>
          \A a \in PreSlots, b \in PreSlots :
              (a.id = b.id /\ a.order # b.order) =>
                  /\ OutOf(a) \cap OutOf(b) = {}
                  /\ \A k \in DOMAIN PreList(a) :
                        \A i \in PosOfUid(PreList(a)[k].uid) :
                            out[i] = Emitted(PreList(a)[k], a)

\* A step that paints or looks up changes the slot of one of two LayerIds of
\* one Id at most.
OneOfTwo ==
    (op = "frame" /\ op' # "drain" /\ layers' # layers) =>
        \A p \in SameIdPairs :
            \/ Slot(layers', p[1]) = Slot(layers, p[1])
            \/ Slot(layers', p[2]) = Slot(layers, p[2])

\* C22: GraphicLayers holds one PaintList for a pair (Order, id) at most, and
\* two LayerIds of one Id in two Orders have lists of their own: in every
\* state the lists are held apart, a lookup has given the list of the LayerId
\* asked for and a drain has emitted each layer's entries as its own, and a
\* call that paints or looks up changes the slot of one of the two at most.
C22_KeyedByOrderAndId == []OwnLists /\ [][OneOfTwo]_vars

\* C22 witness: get returned the list of a layer while the layer of the same
\* Id in another Order held a different list.
C22_Witness ==
    /\ op = "get" /\ got.found /\ got.list # <<>>
    /\ \E p \in SameIdPairs :
          /\ p[1] = entered
          /\ has_slot(layers, p[2])
          /\ get(layers, p[2]) # <<>> /\ Len(get(layers, p[2])) # Len(got.list)

(* ------------------------------- claims about a reserved slot of a layer *)

\* What set wrote, as drain emits it for the layer of the ShapeIdx.
FilledEmitted ==
    Emitted([clip_rect |-> reserved.clip_rect, shape |-> reserved.shape, uid |-> reserved.uid],
            reserved.layer)

\* C26: when a slot was reserved with add, more entries were pushed and the
\* slot was filled with set(idx, clip, frame) in the same frame, the drain
\* emits frame where the placeholder was: behind the entries of the list
\* pushed before the reservation, before every entry pushed after it; and the
\* output is as long as the number of entries that add and extend pushed.
C26_ReserveThenFill ==
    (Drained /\ reserved.state = "filled") =>
        /\ Len(out) = painted
        /\ \E i \in DOMAIN out :
              /\ out[i] = FilledEmitted
              /\ \A j \in OutOf(reserved.layer) :
                    /\ out[j].uid > reserved.uid => i < j
                    /\ out[j].uid < reserved.uid => j < i
              /\ \A j \in DOMAIN out : out[j].uid > reserved.uid /\ j < i =>
                    out[j].uid \notin UidsOf(PreList(reserved.layer))

\* C26 witness: the slot was reserved behind one entry, a child was pushed
\* after it, the slot was filled, and the drain emitted the three in that
\* order.
C26_Witness ==
    /\ Drained /\ reserved.state = "filled"
    /\ reserved.idx.i = 1
    /\ Len(PreList(reserved.layer)) = 3
    /\ \E i \in DOMAIN out :
          /\ out[i] = FilledEmitted
          /\ i > 1 /\ i < Len(out)
          /\ out[i - 1].uid < reserved.uid /\ out[i + 1].uid > reserved.uid

\* C27 as stated: a set with a ShapeIdx of an earlier frame leaves the list
\* as it was, whatever was pushed in the new frame.
C27_Original ==
    (op = "set" /\ reserved.state = "stale_used") =>
        ListOf(layers, reserved.layer) = ListOf(pre, reserved.layer)

\* C27 amended: a set with a ShapeIdx of an earlier frame does not panic and
\* keeps the length of the list and the lists of the other layers; it is a
\* no-op when idx.0 is not below the number of entries pushed to the list
\* since the drain, and when idx.0 is below it the entry at idx, pushed after
\* the drain, is overwritten and no other.
C27_StaleSetWithinBounds ==
    /\ op # "set_panic"
    /\ (op = "set" /\ reserved.state = "stale_used") =>
          LET was == ListOf(pre, reserved.layer)
              now == ListOf(layers, reserved.layer)
              k == reserved.idx.i + 1
          IN /\ Len(now) = Len(was)
             /\ \A l \in AllLayerIds : l # reserved.layer => Slot(layers, l) = Slot(pre, l)
             /\ IF reserved.idx.i >= Len(was)
                THEN now = was
                ELSE /\ now[k].clip_rect = reserved.clip_rect
                     /\ now[k].shape = reserved.shape
                     /\ \A j \in DOMAIN was : j # k => now[j] = was[j]

\* C27 witness: a ShapeIdx of the frame before was given to set after two
\* entries had been pushed to its list in the new frame, and the first of
\* them was overwritten.
C27_Witness ==
    /\ op = "set" /\ reserved.state = "stale_used"
    /\ reserved.idx.i = 0
    /\ Len(ListOf(pre, reserved.layer)) = 2
    /\ ListOf(layers, reserved.layer)[1] # ListOf(pre, reserved.layer)[1]
    /\ ListOf(layers, reserved.layer)[2] = ListOf(pre, reserved.layer)[2]

(* -------------------------------------------------- claims about storage_dir *)

\* The string without its ASCII whitespace.
WithoutWhitespace(str) == SelectSeq(str, LAMBDA c : c \notin {" ", "\t", "\n", "\f", "\r"})

\* The string with "-" where it has ASCII whitespace.
Dashed(str) == [i \in 1 .. Len(str) |-> IF str[i] \in {" ", "\t", "\n", "\f", "\r"} THEN "-" ELSE str[i]]

\* The string with its upper-case letters in lower case.
Lowered(str) == [i \in 1 .. Len(str) |-> IF str[i] = "M" THEN "m" ELSE str[i]]

\* The rules of storage_dir that C25 spells out, and the Windows arm:
\* storage_dir gives, on Linux, XDG_DATA_HOME when that is set and absolute
\* and HOME/.local/share otherwise, joined with the app_id in lower case
\* without its ASCII whitespace; on macOS, HOME/Library/Application Support
\* joined with the app_id with "-" for each ASCII whitespace; on Windows,
\* the roaming AppData folder joined with the app_id as it is and with "data";
\* and None when there is no base directory or the OS is Unknown, Android or
\* iOS.  What directories::ProjectDirs gives for the same app_id, which C25
\* compares with, is not part of this model.
StorageDirRules ==
    dir_call.name = "storage_dir" =>
        LET id == dir_call.app_id
            home == dir_call.home
            xdg == dir_call.xdg
            folder == dir_call.known_folder
        IN CASE dir_call.os = "Nix" ->
                  IF xdg.some /\ Head(xdg.path) = "/"
                  THEN dir_ret = Some(join(xdg.path, WithoutWhitespace(Lowered(id))))
                  ELSE IF home.some
                  THEN dir_ret = Some(join(home.path \o <<"/", ".local", "/", "share">>,
                                           WithoutWhitespace(Lowered(id))))
                  ELSE ~dir_ret.some
             [] dir_call.os = "Mac" ->
                  IF home.some
                  THEN dir_ret = Some(join(home.path \o <<"/", "Library", "/", "Application Support">>,
                                           Dashed(id)))
                  ELSE ~dir_ret.some
             [] dir_call.os = "Windows" ->
                  IF folder.some /\ ~dir_call.uwp
                  THEN /\ dir_ret.some
                       /\ (id # <<>> /\ \A i \in DOMAIN id : id[i] \notin {"/", ":"}) =>
                             dir_ret.path = folder.path \o <<"\\">> \o id \o <<"\\", "data">>
                  ELSE ~dir_ret.some
             [] OTHER -> ~dir_ret.some

\* On Linux, XDG_DATA_HOME set but not absolute, the app_id "M " gave
\* HOME/.local/share/m; and on Windows a directory was given.
StorageDirRulesWitness ==
    /\ dir_call.name = "storage_dir" /\ dir_call.os = "Nix"
    /\ dir_call.xdg = Some(<<"x">>) /\ dir_call.home.some
    /\ dir_call.app_id = <<"M", " ">>
    /\ dir_ret = Some(dir_call.home.path \o <<"/", ".local", "/", "share", "/", "m">>)

StorageDirWindowsWitness ==
    /\ dir_call.name = "storage_dir" /\ dir_call.os = "Windows"
    /\ dir_call.app_id = <<"M", " ">>
    /\ dir_ret = Some(<<"C", ":", "\\", "r", "\\", "M", " ", "\\", "data">>)

\* On Windows an app_id that is a UNC prefix replaced the folder, one that is
\* a drive did too and got no separator, and a rooted one kept the share of
\* the folder.
StorageDirUncWitness ==
    /\ dir_call.name = "storage_dir" /\ dir_call.os = "Windows"
    /\ dir_call.app_id = <<"/", "/", "a", "/", "M">>
    /\ dir_ret = Some(<<"/", "/", "a", "/", "M", "\\", "data">>)
StorageDirDriveWitness ==
    /\ dir_call.name = "storage_dir" /\ dir_call.os = "Windows"
    /\ dir_call.app_id = <<"M", ":">>
    /\ dir_ret = Some(<<"M", ":", "data">>)
StorageDirRootedWitness ==
    /\ dir_call.name = "storage_dir" /\ dir_call.os = "Windows"
    /\ dir_call.app_id = <<"/">>
    /\ dir_ret = Some(<<"\\", "\\", "a", "\\", "M", "/", "data">>)
StorageDirNoShareWitness ==
    /\ dir_call.name = "storage_dir" /\ dir_call.os = "Windows"
    /\ dir_call.app_id = <<"/", "/", "a", "/">>
    /\ dir_ret = Some(<<"C", ":", "/", "/", "a", "/", "data">>)

(* -------------------------------------------------- claims about FileStorage *)

\* The save threads that have not ended.
Running == {t \in DOMAIN threads : threads[t].state # "done"}

\* C28: after set_string(key, value) the store holds value for key and
\* get_string(key) returns it; set_string sets the dirty flag exactly when the
\* stored value was absent or different, and with the value already stored it
\* leaves the map and the flag as they were; the other keys keep their values;
\* get_string changes nothing.
C28_SetThenGet ==
    /\ scall.name = "set_string" =>
          /\ get_string(kv, scall.key) = SomeString(scall.value)
          /\ \A k \in Keys : k # scall.key => get_string(kv, k) = get_string(sbefore.kv, k)
          /\ IF scall.key \in DOMAIN sbefore.kv /\ sbefore.kv[scall.key] = scall.value
             THEN kv = sbefore.kv /\ dirty = sbefore.dirty
             ELSE dirty
    /\ scall.name = "get_string" =>
          /\ kv = sbefore.kv /\ dirty = sbefore.dirty /\ Len(threads) = sbefore.threads
          /\ sret = (IF scall.key \in DOMAIN kv THEN SomeString(kv[scall.key]) ELSE NoString)
          /\ (last_set.name = "set_string" /\ last_set.key = scall.key) =>
                sret = SomeString(last_set.value)

\* C28 witness: set_string with the value already stored returned on a clean
\* store and left it clean.
C28_Witness ==
    /\ scall.name = "set_string"
    /\ scall.key \in DOMAIN sbefore.kv /\ sbefore.kv[scall.key] = scall.value
    /\ ~sbefore.dirty /\ ~dirty
    /\ threads # <<>>

\* C29: one save thread runs at a time at most; a flush on a clean store
\* spawns nothing; a flush on a dirty store spawns only when the save thread
\* spawned before it has ended; a dropped FileStorage has no save thread
\* running; the save threads end, and so write, in the order of their
\* flushes; and between File::create and the end of a save thread the file
\* holds only what that thread has written so far, while a whole file holds
\* what was there at the start or the kv of a save thread that has ended.
C29_SavesNeverOverlap ==
    /\ Cardinality(Running) <= 1
    /\ \A t \in DOMAIN threads :
          threads[t].state = "writing" => file \in {EmptyFile, PartFile}
    /\ (file.bytes = "whole" /\ spc # "new") =>
          \/ file = WholeFile(loaded)
          \/ \E t \in DOMAIN threads :
                threads[t].state = "done" /\ file = WholeFile(threads[t].kv)
    /\ (scall.name = "flush" /\ ~sbefore.dirty /\ spc = "ret") => Len(threads) = sbefore.threads
    /\ spc = "flush_spawn" => Running = {}
    /\ spc = "dropped" => Running = {}
    /\ \A i \in DOMAIN writes : writes[i] = i

\* C29 witness: a second save thread, spawned by a flush that waited for the
\* first, has created the file anew over what the first had written, and the
\* caller has made a set_string meanwhile.
C29_Witness ==
    /\ Len(threads) = 2
    /\ threads[1].state = "done" /\ threads[2].state = "writing"
    /\ threads[1].kv # threads[2].kv
    /\ writes = <<1>>
    /\ file = EmptyFile
    /\ spc = "ret" /\ scall.name = "set_string"

\* C30: whenever the caller is between calls and the dirty flag is false, kv
\* is what the save thread spawned last was given, or what was loaded when
\* none was spawned; also after a flush whose spawn failed.
C30_NoChangeLost ==
    (spc \in {"idle", "ret"} /\ ~dirty) =>
        kv = (IF threads = <<>> THEN loaded ELSE threads[Len(threads)].kv)

(* --------------------------------------------------------- claims about Strip *)

\* A call of cell or empty is observed, made with a pre-allocated size left,
\* or with none left.
StripCalled == strip_call.name \in {"cell", "empty"}
SizeLeft == strip_before.size_index < Len(strip.sizes)

\* The size of a cell of the layout along the direction of the Strip.
SizeOf(c) == IF strip.direction = "Horizontal" THEN c.width ELSE c.height

\* What C31 says of the calls with a size left and of the drop: size_index is
\* never above sizes.len(); a call of cell or empty takes the next
\* pre-allocated size and adds one cell of that size; a dropped Strip has
\* size_index == sizes.len(), and as many cells as sizes when the caller
\* added no more than that, the cells in the order of the sizes.
StripWithinSizes ==
    /\ strip.size_index <= Len(strip.sizes)
    /\ (StripCalled /\ SizeLeft) =>
          /\ stp = "open"
          /\ strip.size_index = strip_before.size_index + 1
          /\ Len(cells) = strip_before.cells + 1
          /\ cells[Len(cells)].kind = strip_call.name
          /\ SizeOf(cells[Len(cells)]) = Absolute(strip.sizes[strip.size_index])
    /\ stp \in {"dropped", "dropped_unwinding"} => strip.size_index = Len(strip.sizes)
    /\ (stp = "dropped" /\ extra = 0) =>
          /\ Len(cells) = Len(strip.sizes)
          /\ \A i \in DOMAIN cells : SizeOf(cells[i]) = Absolute(strip.sizes[i])

\* C31 as stated: with the above, a cell added with no pre-allocated size left
\* does not advance size_index and is added with the size 8.0.
C31_Original ==
    /\ StripWithinSizes
    /\ (StripCalled /\ ~SizeLeft) =>
          /\ strip.size_index = strip_before.size_index
          /\ stp = "open"
          /\ Len(cells) = strip_before.cells + 1
          /\ SizeOf(cells[Len(cells)]) = Absolute(8)

\* C31 amended: with the above, a cell added with no pre-allocated size left
\* does not advance size_index; in a build without debug assertions it is
\* added with the size 8.0, and in a build with debug assertions the call
\* panics and adds no cell.
C31_StripCells ==
    /\ StripWithinSizes
    /\ (StripCalled /\ ~SizeLeft) =>
          /\ strip.size_index = strip_before.size_index
          /\ IF debug_assertions
             THEN stp = "unwinding" /\ Len(cells) = strip_before.cells
             ELSE /\ stp = "open"
                  /\ Len(cells) = strip_before.cells + 1
                  /\ SizeOf(cells[Len(cells)]) = Absolute(8)

\* C31 witness: of two pre-allocated sizes the caller used the first for a
\* cell, and the drop filled the second with an empty cell.
C31_Witness ==
    /\ stp = "dropped" /\ extra = 0
    /\ Len(strip.sizes) = 2 /\ strip.sizes[1] # strip.sizes[2]
    /\ Len(cells) = 2
    /\ cells[1].kind = "cell" /\ cells[2].kind = "empty"
    /\ SizeOf(cells[2]) = Absolute(strip.sizes[2])

====
